---------------------------- MODULE Spec2Model ----------------------------
(***************************************************************************)
(* Retrieval-and-planning pipeline of the multi-MCP agent service.         *)
(*                                                                         *)
(*   approach1: AgentService.process_query / MultiMCPAgentWithFiltering.run*)
(*              over FAISSToolIndexer.search and OrchestratorAgent         *)
(*   approach2: APIHandlers.execute_query over OrchestratorPlanner and     *)
(*              MagenticOrchestrator                                       *)
(*                                                                         *)
(* Text is a sequence of one-character strings, so that lower(), split()   *)
(* and the substring test of the keyword scoring are computed, not assumed.*)
(* External capabilities (the LLM, the embedding service, the vector       *)
(* index ranking, the workflow) are nondeterministic inputs of the actions.*)
(***************************************************************************)
EXTENDS Integers, Sequences, FiniteSets, TLC

(***************************************************************************)
(* Bounds of the model                                                     *)
(***************************************************************************)
MaxQueryLen == 3      \* longest query text drawn for FAISSToolIndexer.search
MaxTools == 3         \* largest tool catalog drawn for FAISSToolIndexer.search
MaxTopK == 3          \* largest top_k drawn for FAISSToolIndexer.search

MaxRequests == 2      \* requests started in one behaviour
MaxSessionRequests == 3   \* requests started in one behaviour of overlapping sessions
MaxRegistryOps == 1   \* add_server / remove_server calls in one behaviour
MaxConstructions == 3 \* indexer constructions in one behaviour
MaxSearches == 2      \* search() calls on one constructed indexer
MaxRegistryCalls == 3 \* add_server / remove_server calls in one behaviour of overlapping calls

TopK == 5             \* top_k of the tool search in process_query and run

None == "None"        \* Python's None

(***************************************************************************)
(* Text                                                                    *)
(***************************************************************************)
Chars == {"a", "B", " "}

LowerChar(c) == IF c = "B" THEN "b" ELSE IF c = "A" THEN "a" ELSE c

\* str.lower()
Lower(s) == [i \in 1..Len(s) |-> LowerChar(s[i])]

\* str.split(): maximal runs of non-whitespace characters, in order
RECURSIVE SplitFrom(_, _, _)
SplitFrom(s, i, cur) ==
    IF i > Len(s)
    THEN IF cur = <<>> THEN <<>> ELSE <<cur>>
    ELSE IF s[i] = " "
         THEN (IF cur = <<>> THEN <<>> ELSE <<cur>>) \o SplitFrom(s, i + 1, <<>>)
         ELSE SplitFrom(s, i + 1, Append(cur, s[i]))

Split(s) == SplitFrom(s, 1, <<>>)

\* kw in text (substring test)
Contains(kw, text) ==
    \E i \in 0..(Len(text) - Len(kw)) : SubSeq(text, i + 1, i + Len(kw)) = kw

\* seq[:n] for n >= 0
Take(seq, n) == SubSeq(seq, 1, IF n < Len(seq) THEN n ELSE Len(seq))

Min(a, b) == IF a < b THEN a ELSE b

\* x in seq
InSeq(x, seq) == \E i \in 1..Len(seq) : seq[i] = x

Range(seq) == {seq[i] : i \in 1..Len(seq)}

(***************************************************************************)
(* FAISSToolIndexer.search                                                 *)
(***************************************************************************)
\* A tool dict: name, description and the callable ("function", an object
\* identity; input_schema travels with it).
MkTool(n, d, f) == [name |-> n, description |-> d, function |-> f]

\* sum(1 for kw in keywords if kw in name_lower or kw in desc_lower)
KeywordScore(tool, keywords) ==
    Cardinality({i \in 1..Len(keywords) :
                    \/ Contains(keywords[i], Lower(tool.name))
                    \/ Contains(keywords[i], Lower(tool.description))})

\* [t for s, t in scored_tools if s > 0]
KeywordMatches(tools, keywords) ==
    SelectSeq(tools, LAMBDA t : KeywordScore(t, keywords) > 0)

\* sorted(seq, key=score, reverse=True): descending, equal keys keep their order
RECURSIVE SortedFrom(_, _, _)
SortedFrom(seq, keywords, level) ==
    IF level < 0 THEN <<>>
    ELSE SelectSeq(seq, LAMBDA t : KeywordScore(t, keywords) = level)
            \o SortedFrom(seq, keywords, level - 1)

\* mutant: ascending instead of descending
SortedByScoreAsc(seq, keywords) ==
    LET d == SortedFrom(seq, keywords, Len(keywords))
    IN  [i \in 1..Len(d) |-> d[Len(d) + 1 - i]]

SortedByScoreDesc(seq, keywords) == SortedFrom(seq, keywords, Len(keywords))

\* mutant: the neighbours are appended without the "not in result" test
RECURSIVE MergeSemanticNoDedup(_, _, _, _)
MergeSemanticNoDedup(result, semantic, i, top_k) ==
    IF i > Len(semantic) THEN result
    ELSE MergeSemanticNoDedup(
            IF Len(result) < top_k THEN Append(result, semantic[i]) ELSE result,
            semantic, i + 1, top_k)

\* for tool in semantic_results: if tool not in result and len(result) < top_k: append
RECURSIVE MergeSemantic(_, _, _, _)
MergeSemantic(result, semantic, i, top_k) ==
    IF i > Len(semantic) THEN result
    ELSE MergeSemantic(
            IF ~InSeq(semantic[i], result) /\ Len(result) < top_k
            THEN Append(result, semantic[i]) ELSE result,
            semantic, i + 1, top_k)

\* k of index.search(query_emb, min(top_k * 2, len(self.tools)))
SemanticK(tools, top_k) == Min(top_k * 2, Len(tools))

\* What IndexFlatL2.search can return for k neighbours over n indexed vectors:
\* k pairwise distinct positions (1-based here), nearest first.
Rankings(n, k) ==
    {r \in [1..k -> 1..n] : \A i, j \in 1..k : i # j => r[i] # r[j]}

\* mutant: every search of a non-empty catalog goes to the vector index
NeedsSemanticAlways(tools, query, top_k) == tools # <<>>

\* mutant: the empty catalog is not answered before the keyword scoring
NeedsSemanticUnguarded(tools, query, top_k) ==
    Len(KeywordMatches(tools, Split(Lower(query)))) < top_k

\* True when search needs the embedding of the query and the vector index
NeedsSemantic(tools, query, top_k) ==
    /\ tools # <<>>
    /\ Len(KeywordMatches(tools, Split(Lower(query)))) < top_k

SearchMutNoSlice(tools, query, top_k, ranking) ==
    IF tools = <<>> THEN <<>>
    ELSE LET keywords == Split(Lower(query))
             keyword_matches == KeywordMatches(tools, keywords)
         IN  IF Len(keyword_matches) >= top_k
             THEN SortedByScoreDesc(keyword_matches, keywords)
             ELSE keyword_matches \o [i \in 1..Len(ranking) |-> tools[ranking[i]]]

\* mutant: only the keyword matches are returned, the neighbours are dropped
SearchKeywordOnly(tools, query, top_k, ranking) ==
    IF tools = <<>> THEN <<>>
    ELSE LET keywords == Split(Lower(query))
         IN  Take(SortedByScoreDesc(KeywordMatches(tools, keywords), keywords), top_k)

\* FAISSToolIndexer.search(query, top_k) with the vector index answering `ranking`
Search(tools, query, top_k, ranking) ==
    IF tools = <<>> THEN <<>>
    ELSE LET keywords == Split(Lower(query))
             keyword_matches == KeywordMatches(tools, keywords)
         IN  IF Len(keyword_matches) >= top_k
             THEN Take(SortedByScoreDesc(keyword_matches, keywords), top_k)
             ELSE LET semantic_results ==
                          [i \in 1..Len(ranking) |-> tools[ranking[i]]]
                      result == MergeSemantic(keyword_matches, semantic_results, 1, top_k)
                  IN  Take(result, top_k)

(***************************************************************************)
(* State                                                                   *)
(***************************************************************************)
VARIABLES
    \* one FAISSToolIndexer and its last search() call
    ix_tools,       \* self.tools
    ix_call,        \* the last call: query, top_k, what the vector index answered
    ix_result,      \* the list search() returned (<<>> when it raised)
    ix_outcome,     \* "idle" (no call outstanding) | "returned" | "raised"
    ix_embedCalls   \* get_embedding calls made by the last search()

ixVars == <<ix_tools, ix_call, ix_result, ix_outcome, ix_embedCalls>>

VARIABLES
    mode,            \* which application of the repository the behaviour runs
    \* approach1: MultiMCPAgentWithFiltering and AgentService
    mcp_connections, \* names with a registered connection
    server_tools,    \* name -> list of tool dicts
    tool_indexers,   \* name -> the tools of that server's FAISSToolIndexer
    MCP_SERVERS,     \* names in the module-level server config
    threads,         \* AgentService.threads: session_id -> thread
    req,             \* request slot -> the request running in it
    regop,           \* the add_server / remove_server call in progress
    nextThread,      \* identity of the next thread get_new_thread() creates
    nReq,            \* requests started so far
    nRegOps,         \* registry calls started so far
    last             \* history: per session, its latest clear or produced thread

a1Vars == <<mcp_connections, server_tools, tool_indexers, MCP_SERVERS, threads,
            req, regop, nextThread, nReq, nRegOps, last>>

VARIABLES
    \* approach2: APIHandlers
    agents_cache,    \* agent name -> agent info
    mcp_servers,     \* names of the registered MCP server configs
    a2_threads,      \* APIHandlers.threads: session_id -> thread
    a2_req,          \* request slot -> the execute_query call running in it
    a2_nextThread,   \* identity of the next thread the workflow creates
    a2_nReq,         \* requests started so far
    a2_last,         \* history: per session, its latest clear or produced thread
    db_agents,       \* the agent_registry table: agent name -> agent info
    a2_call          \* the last agent or MCP server call and its HTTP status

a2Vars == <<agents_cache, mcp_servers, a2_threads, a2_req, a2_nextThread, a2_nReq,
            a2_last, db_agents, a2_call>>

VARIABLES
    \* cache/faiss_indexes and the indexer built over it
    disk,            \* collection -> its .faiss file and its .pkl file
    cons,            \* the indexer construction in progress, or the last one
    srch,            \* the last search() of the constructed FAISSToolIndexer
    nCons,           \* constructions started so far
    saved            \* history: per collection, the indexer whose save completed last

cVars == <<disk, cons, srch, nCons, saved>>

VARIABLES
    \* approach1: what initialize() fixed, and the connections as objects
    planning_servers, \* the servers described in the planning agent's instructions
    conns,            \* every connection opened so far: its server name, whether open
    registered,       \* mcp_connections as a dict: name -> its connection in conns
    ops,              \* call slot -> the add_server / remove_server call running in it
    nOps,             \* overlapping registry calls started so far
    initialized       \* AgentService._initialized

rVars == <<planning_servers, conns, registered, ops, nOps, initialized>>

vars == <<ixVars, mode, a1Vars, a2Vars, cVars, rVars>>

(***************************************************************************)
(* Inputs of the search specification                                      *)
(***************************************************************************)
\* The tools the providers of the model declare; a catalog is a sequence of
\* distinct ones, the rest belong to other servers.
ToolPool ==
    << MkTool(<<"a">>,      <<"a", " ", "B">>, 1),
       MkTool(<<"B">>,      <<"B">>,           2),
       MkTool(<<"a", "b">>, <<"a", "b">>,      3),
       MkTool(<<"z">>,      <<"z">>,           4) >>

\* the sequences of pairwise distinct elements of S, of length at most n
RECURSIVE InjSeqs(_, _)
InjSeqs(S, n) ==
    IF n = 0 THEN {<<>>}
    ELSE LET shorter == InjSeqs(S, n - 1)
         IN  shorter \cup {Append(q, x) : q \in shorter, x \in S}

Distinct(q) == \A i, j \in 1..Len(q) : i # j => q[i] # q[j]

Catalogs ==
    {[i \in 1..Len(p) |-> ToolPool[p[i]]] :
        p \in {q \in InjSeqs(1..Len(ToolPool), MaxTools) : Distinct(q)}}

RECURSIVE TextsUpTo(_)
TextsUpTo(n) ==
    IF n = 0 THEN {<<>>}
    ELSE LET shorter == TextsUpTo(n - 1)
         IN  shorter \cup {Append(t, c) : t \in shorter, c \in Chars}

Queries == TextsUpTo(MaxQueryLen)

NoCall == [query |-> <<>>, top_k |-> 0, ranking |-> <<>>]

(***************************************************************************)
(* FAISSToolIndexer: construction and search                               *)
(***************************************************************************)
IxInit ==
    /\ ix_tools \in Catalogs
    /\ ix_call = NoCall
    /\ ix_result = <<>>
    /\ ix_outcome = "idle"
    /\ ix_embedCalls = 0

\* search() answered from the keyword matches alone (or on an empty catalog)
SearchKeyword(query, top_k) ==
    /\ ix_outcome = "idle"
    /\ ~NeedsSemantic(ix_tools, query, top_k)
    /\ ix_call' = [query |-> query, top_k |-> top_k, ranking |-> <<>>]
    /\ ix_result' = Search(ix_tools, query, top_k, <<>>)
    /\ ix_outcome' = "returned"
    /\ ix_embedCalls' = 0
    /\ UNCHANGED ix_tools

\* search() that embeds the query and merges the vector index's neighbours
SearchSemantic(query, top_k, ranking) ==
    /\ ix_outcome = "idle"
    /\ NeedsSemantic(ix_tools, query, top_k)
    /\ ix_call' = [query |-> query, top_k |-> top_k, ranking |-> ranking]
    /\ ix_result' = Search(ix_tools, query, top_k, ranking)
    /\ ix_outcome' = "returned"
    /\ ix_embedCalls' = 1
    /\ UNCHANGED ix_tools

\* search() whose get_embedding(query) raises: the exception leaves search()
SearchEmbeddingFails(query, top_k) ==
    /\ ix_outcome = "idle"
    /\ NeedsSemantic(ix_tools, query, top_k)
    /\ ix_call' = [query |-> query, top_k |-> top_k, ranking |-> <<>>]
    /\ ix_result' = <<>>
    /\ ix_outcome' = "raised"
    /\ ix_embedCalls' = 1
    /\ UNCHANGED ix_tools

\* the caller takes the outcome; the indexer is ready for the next call
SearchDone ==
    /\ ix_outcome # "idle"
    /\ ix_outcome' = "idle"
    /\ ix_call' = NoCall
    /\ ix_result' = <<>>
    /\ ix_embedCalls' = 0
    /\ UNCHANGED ix_tools

\* one search() call on the idle indexer, with any query and any top_k >= 0
SearchCall ==
    /\ ix_outcome = "idle"
    /\ \E query \in Queries, top_k \in 0..MaxTopK :
          \/ SearchKeyword(query, top_k)
          \/ /\ NeedsSemantic(ix_tools, query, top_k)
             /\ \E ranking \in Rankings(Len(ix_tools), SemanticK(ix_tools, top_k)) :
                   SearchSemantic(query, top_k, ranking)
          \/ SearchEmbeddingFails(query, top_k)

IxNext ==
    \/ SearchCall /\ UNCHANGED <<mode, a1Vars, a2Vars, cVars, rVars>>
    \/ SearchDone /\ UNCHANGED <<mode, a1Vars, a2Vars, cVars, rVars>>

(***************************************************************************)
(* The planner's LLM response and its decoding                             *)
(*                                                                         *)
(* A response text is a sequence of tokens: the code fence (three          *)
(* backquotes), the tag json, whitespace, and document tokens.  A document *)
(* token is the text of one JSON value (a plan object, or a JSON list), or *)
(* text that is no JSON at all (the literal text not json).                *)
(***************************************************************************)
FENCE == [t |-> "fence"]
TAG == [t |-> "json"]
WS == [t |-> "ws"]
NotJson == [t |-> "not json"]
JsonList == [t |-> "list"]
Doc(planObject) == [t |-> "object", v |-> planObject]

IsJsonDoc(tok) == tok.t \in {"object", "list"}

\* index of the first FENCE at or after position i, or Len(t) + 1
RECURSIVE FirstFence(_, _)
FirstFence(t, i) ==
    IF i > Len(t) THEN Len(t) + 1
    ELSE IF t[i] = FENCE THEN i ELSE FirstFence(t, i + 1)

\* index of the first fence followed by the tag json, at or after position i, or Len(t) + 1
RECURSIVE FirstFenceJson(_, _)
FirstFenceJson(t, i) ==
    IF i >= Len(t) THEN Len(t) + 1
    ELSE IF t[i] = FENCE /\ t[i + 1] = TAG THEN i ELSE FirstFenceJson(t, i + 1)

\* str.strip()
RECURSIVE Strip(_)
Strip(t) ==
    IF t = <<>> THEN t
    ELSE IF Head(t) = WS THEN Strip(Tail(t))
    ELSE IF t[Len(t)] = WS THEN Strip(SubSeq(t, 1, Len(t) - 1))
    ELSE t

\* mutant: only a fence carrying the json tag is stripped
decode_json_tagged_only(t) ==
    IF FirstFenceJson(t, 1) <= Len(t)
    THEN LET from == FirstFenceJson(t, 1) + 2
         IN  Strip(SubSeq(t, from, FirstFence(t, from) - 1))
    ELSE Strip(t)

\* OrchestratorAgent.decode_json
decode_json(t) ==
    IF FirstFenceJson(t, 1) <= Len(t)
    THEN LET from == FirstFenceJson(t, 1) + 2
         IN  Strip(SubSeq(t, from, FirstFence(t, from) - 1))
    ELSE IF FirstFence(t, 1) <= Len(t)
    THEN LET from == FirstFence(t, 1) + 1
         IN  Strip(SubSeq(t, from, FirstFence(t, from) - 1))
    ELSE Strip(t)

\* The text of a plan object one of whose strings holds three backquotes
\* (a sub-query quoting a code block): the text up to the backquotes, the
\* backquotes, the rest of the text
JOPEN == [t |-> "object head"]
JCLOSE == [t |-> "object tail"]
FencedStringText == <<JOPEN, FENCE, JCLOSE>>
FencedStringDoc ==
    [t |-> "object",
     v |-> [servers |-> <<"A">>, tool_queries |-> [x \in {"A"} |-> <<"c">>]]]

\* json.loads succeeds exactly on the text of one JSON value
JsonValid(t) ==
    \/ Len(Strip(t)) = 1 /\ IsJsonDoc(Strip(t)[1])
    \/ Strip(t) = FencedStringText
JsonLoads(t) == IF Strip(t) = FencedStringText THEN FencedStringDoc ELSE Strip(t)[1]

\* the plan object has the keys plan() reads
IsPlanObject(doc) == doc.t = "object"

Exc(cls, msg) == [cls |-> cls, msg |-> msg]
NoExc == Exc(None, None)

NoPlan == [servers |-> <<>>, tool_queries |-> <<>>]

plan_mut_default(t) ==
    IF JsonValid(decode_json(t)) /\ IsPlanObject(JsonLoads(decode_json(t)))
    THEN [ok |-> TRUE, plan |-> JsonLoads(decode_json(t)).v, exc |-> NoExc]
    ELSE [ok |-> TRUE, plan |-> NoPlan, exc |-> NoExc]

\* OrchestratorAgent.plan on the planning agent's response t
plan(t) ==
    LET json_str == decode_json(t)
    IN  IF ~JsonValid(json_str)
        THEN [ok |-> FALSE, plan |-> NoPlan, exc |-> Exc("JSONDecodeError", "Expecting value")]
        ELSE IF ~IsPlanObject(JsonLoads(json_str))
        THEN [ok |-> FALSE, plan |-> NoPlan, exc |-> Exc("TypeError", "list indices")]
        ELSE [ok |-> TRUE, plan |-> JsonLoads(json_str).v, exc |-> NoExc]

(***************************************************************************)
(* approach1: inputs                                                       *)
(***************************************************************************)
\* what each capability provider lists as its functions
ProviderTools(name) ==
    CASE name = "A" -> <<ToolPool[1], ToolPool[2]>>
      [] name = "B" -> <<ToolPool[3]>>
      [] OTHER      -> <<>>

ServerNames == {"A", "B", "C"}
InitialServers == {"A", "C"}      \* MCP_SERVERS at startup

QueryText == <<"z", " ", "B">>    \* the request's query
SubQuery == <<"a">>               \* a sub-query the planner phrases

SessionIds == {"", "s1", "s2"}
Truthy(x) == x # None /\ x # ""

EmptyMap == <<>>
MapGet(m, k) == IF k \in DOMAIN m THEN m[k] ELSE None

MkPlan(servers, tq) == [servers |-> servers, tool_queries |-> tq]

\* plans the planner may answer with
PlanPool ==
    { MkPlan(<<>>, EmptyMap),
      MkPlan(<<"A">>, EmptyMap),
      MkPlan(<<"A">>, [x \in {"A"} |-> SubQuery]),
      MkPlan(<<"C">>, [x \in {"C"} |-> SubQuery]),
      MkPlan(<<"B">>, EmptyMap),
      MkPlan(<<"ghost">>, [x \in {"ghost"} |-> SubQuery]),
      MkPlan(<<"ghost", "A">>, [x \in {"ghost", "A"} |-> SubQuery]),
      MkPlan(<<"B", "A">>, [x \in {"A"} |-> SubQuery]),
      MkPlan(<<"C", "B">>, EmptyMap) }

\* response texts of the planning agent
Responses ==
    {<<Doc(d)>> : d \in PlanPool}
    \cup { <<FENCE, TAG, WS, Doc(MkPlan(<<"A">>, EmptyMap)), WS, FENCE>>,
           <<NotJson>>,
           <<FENCE, WS, NotJson, WS, FENCE>>,
           <<JsonList>> }

\* exceptions the execution agent may raise
ExecErrors == {Exc("RuntimeError", "boom")}
EmbeddingError == Exc("APIConnectionError", "embedding")

Slots == {1, 2}

(***************************************************************************)
(* approach1: requests                                                     *)
(***************************************************************************)
NoThread == 0         \* thread = None; thread objects are 1, 2, ...

NoReply == [kind |-> "none", status |-> 0, detail |-> <<>>]

\* history value of a session: nothing yet, cleared, or the thread produced
\* by the latest completed execution (NoThread when it produced none)
Fresh == [ev |-> "fresh", thread |-> NoThread]
Cleared(t) == [ev |-> "cleared", thread |-> t]   \* t: the thread the clear dropped
Produced(t) == [ev |-> "produced", thread |-> t]

IdleReq ==
    [ pc |-> "idle",           \* idle | planning | executing | done
      kind |-> "none",         \* service (process_query behind /query) | run
      query |-> <<>>,
      sid |-> None,            \* session_id
      argThread |-> NoThread,  \* run(): the caller's thread
      resp |-> <<>>,           \* the planning agent's response text
      plan |-> NoPlan,
      selected |-> EmptyMap,   \* selected_tools
      subqueries |-> EmptyMap, \* server -> the tool_query its indexer was searched with
      tools |-> <<>>,          \* all_filtered_tools handed to execute
      fallback |-> FALSE,      \* the fallback step was taken
      skipped |-> {},          \* planned servers skipped as not indexed
      execThread |-> NoThread, \* thread argument of OrchestratorAgent.execute
      runThread |-> NoThread,  \* thread the execution agent runs with
      execExc |-> NoExc,       \* what the execution agent raised
      nPlan |-> 0,             \* planning calls made
      nSearch |-> 0,           \* indexer.search calls made
      nExec |-> 0,             \* execution calls made
      wrote |-> FALSE,         \* the request wrote the session store
      reply |-> NoReply,       \* what the caller receives
      pre |-> Fresh,           \* history of the session when the request began
      disturbed |-> FALSE ]    \* another request or clear of the session overlapped

InFlight(rq) == rq.pc \in {"planning", "executing"}

\* history: every other in-flight request of session sid has been overlapped
Disturb(rqs, sid, r) ==
    [x \in Slots |->
        IF x # r /\ sid \in SessionIds /\ rqs[x].sid = sid /\ InFlight(rqs[x])
        THEN [rqs[x] EXCEPT !.disturbed = TRUE] ELSE rqs[x]]

\* plan["tool_queries"].get(server_name, query)
ToolQuery(pl, server, query) ==
    IF server \in DOMAIN pl.tool_queries THEN pl.tool_queries[server] ELSE query

\* one ranking per indexer: what its vector index answers for this request
RankingChoices ==
    {f \in [DOMAIN tool_indexers ->
              UNION {Rankings(Len(tool_indexers[n]), SemanticK(tool_indexers[n], TopK)) :
                        n \in DOMAIN tool_indexers}] :
        \A n \in DOMAIN tool_indexers :
            f[n] \in Rankings(Len(tool_indexers[n]), SemanticK(tool_indexers[n], TopK))}

\* relevant = indexer.search(tool_query, top_k=5)
Relevant(pl, server, query, rk) ==
    Search(tool_indexers[server], ToolQuery(pl, server, query), TopK, rk[server])

Names(tools) == [i \in 1..Len(tools) |-> tools[i].name]
Functions(tools) == [i \in 1..Len(tools) |-> tools[i].function]

\* [t["function"] for t in server_tools[server_name] if t["name"] in tool_names]
ServerToolFunctions(server, tool_names) ==
    Functions(SelectSeq(server_tools[server], LAMBDA t : InSeq(t.name, tool_names)))

\* the filtering loop over plan["servers"]: all_filtered_tools
RECURSIVE FilterLoop(_, _, _, _)
FilterLoop(pl, i, query, rk) ==
    IF i > Len(pl.servers) THEN <<>>
    ELSE LET server == pl.servers[i]
         IN  (IF server \notin DOMAIN tool_indexers THEN <<>>
              ELSE ServerToolFunctions(server, Names(Relevant(pl, server, query, rk))))
             \o FilterLoop(pl, i + 1, query, rk)

\* selected_tools after the loop
SelectedTools(pl, query, rk) ==
    [server \in Range(pl.servers) \cap DOMAIN tool_indexers |->
        Names(Relevant(pl, server, query, rk))]

\* the tool_query of each indexer.search call of the loop
SubQueries(pl, query) ==
    [server \in Range(pl.servers) \cap DOMAIN tool_indexers |-> ToolQuery(pl, server, query)]

\* number of indexer.search calls of the loop
SearchCalls(pl) ==
    Cardinality({i \in 1..Len(pl.servers) : pl.servers[i] \in DOMAIN tool_indexers})

\* some search of the loop embeds its query
LoopNeedsEmbedding(pl, query) ==
    \E i \in 1..Len(pl.servers) :
        /\ pl.servers[i] \in DOMAIN tool_indexers
        /\ NeedsSemantic(tool_indexers[pl.servers[i]],
                         ToolQuery(pl, pl.servers[i], query), TopK)

\* indexer.search calls made when the first embedding call of the loop raises
SearchCallsUntilFailure(pl, query) ==
    LET first == CHOOSE i \in 1..Len(pl.servers) :
                    /\ pl.servers[i] \in DOMAIN tool_indexers
                    /\ NeedsSemantic(tool_indexers[pl.servers[i]],
                                     ToolQuery(pl, pl.servers[i], query), TopK)
                    /\ \A j \in 1..(i - 1) :
                          ~(/\ pl.servers[j] \in DOMAIN tool_indexers
                            /\ NeedsSemantic(tool_indexers[pl.servers[j]],
                                             ToolQuery(pl, pl.servers[j], query), TopK))
    IN  Cardinality({j \in 1..first : pl.servers[j] \in DOMAIN tool_indexers})

\* mutant: the fallback stops after the first planned server
FallbackLoopFirstOnly(pl, i) ==
    IF i > Len(pl.servers) \/ pl.servers[i] \notin DOMAIN server_tools THEN <<>>
    ELSE Functions(server_tools[pl.servers[i]])

\* mutant: the fallback takes the tools of every registered server
RECURSIVE FallbackLoopEveryServer(_, _)
FallbackLoopEveryServer(pl, i) ==
    IF i > 3 THEN <<>>
    ELSE (IF <<"A", "B", "C">>[i] \in DOMAIN server_tools
          THEN Functions(server_tools[<<"A", "B", "C">>[i]]) ELSE <<>>)
         \o FallbackLoopEveryServer(pl, i + 1)

\* the fallback loop: every tool of every planned server in server_tools
RECURSIVE FallbackLoop(_, _)
FallbackLoop(pl, i) ==
    IF i > Len(pl.servers) THEN <<>>
    ELSE (IF pl.servers[i] \in DOMAIN server_tools
          THEN Functions(server_tools[pl.servers[i]]) ELSE <<>>)
         \o FallbackLoop(pl, i + 1)

\* mutant: the stored thread is never looked up
ThreadForNone(sid) == NoThread

\* self.threads.get(session_id) if session_id else None
ThreadFor(sid) ==
    IF Truthy(sid) THEN (IF sid \in DOMAIN threads THEN threads[sid] ELSE NoThread)
    ELSE NoThread

\* the /query route's answer to an exception e of process_query
RouteError(e) ==
    [kind |-> "error", status |-> 500, detail |-> <<"Query processing failed", e.msg>>]

\* run() has no route: the exception reaches its caller as raised
Raised(e) == [kind |-> "raised", status |-> 0, detail |-> <<e.cls, e.msg>>]

FailureReply(kind, e) == IF kind = "service" THEN RouteError(e) ELSE Raised(e)

\* mutant: a failing request plans again
FailRetries(rq, e) ==
    IF rq.nPlan < 2
    THEN [rq EXCEPT !.pc = "planning", !.nPlan = @ + 1]
    ELSE [rq EXCEPT !.pc = "done", !.reply = FailureReply(rq.kind, e)]

Fail(rq, e) == [rq EXCEPT !.pc = "done", !.reply = FailureReply(rq.kind, e)]

\* AgentService.process_query / MultiMCPAgentWithFiltering.run up to the
\* planning call
\* the servers argument of plan(): list(self.agent.server_tools.keys()) in
\* process_query, list(MCP_SERVERS.keys()) in run; plan() does not use it
KnownServers(kind) == IF kind = "service" THEN DOMAIN server_tools ELSE MCP_SERVERS

\* mutant: process_query does not test _initialized
A1StartUnchecked(r, kind, sid, argThread) ==
    /\ mode = "approach1"
    /\ req[r].pc \in {"idle", "done"}
    /\ kind = "service" => argThread = NoThread
    /\ kind = "run" => sid = None
    /\ nReq' = nReq + 1
    /\ req' = [req EXCEPT ![r] =
                 [IdleReq EXCEPT !.pc = "planning", !.kind = kind, !.query = QueryText,
                                 !.sid = sid, !.argThread = argThread,
                                 !.nPlan = IdleReq.nPlan + 1,
                                 !.pre = IF sid \in SessionIds THEN last[sid] ELSE Fresh,
                                 !.disturbed = \E x \in Slots \ {r} :
                                     /\ sid \in SessionIds
                                     /\ req[x].sid = sid
                                     /\ InFlight(req[x])]]
    /\ UNCHANGED <<mcp_connections, server_tools, tool_indexers, MCP_SERVERS, threads,
                   regop, nextThread, nRegOps, last>>

NotInitialized == Exc("RuntimeError", "Agent not initialized")

\* process_query raises RuntimeError while _initialized is false (run has no
\* such test)
A1Start(r, kind, sid, argThread) ==
    /\ mode = "approach1"
    /\ req[r].pc \in {"idle", "done"}
    /\ kind = "service" => argThread = NoThread
    /\ kind = "run" => sid = None
    /\ nReq' = nReq + 1
    /\ req' = [req EXCEPT ![r] =
                 IF kind = "service" /\ ~initialized
                 THEN Fail([IdleReq EXCEPT !.kind = kind, !.query = QueryText, !.sid = sid],
                           NotInitialized)
                 ELSE
                 [IdleReq EXCEPT !.pc = "planning", !.kind = kind, !.query = QueryText,
                                 !.sid = sid, !.argThread = argThread,
                                 !.nPlan = IdleReq.nPlan + 1,
                                 !.pre = IF sid \in SessionIds THEN last[sid] ELSE Fresh,
                                 !.disturbed = \E x \in Slots \ {r} :
                                     /\ sid \in SessionIds
                                     /\ req[x].sid = sid
                                     /\ InFlight(req[x])]]
    /\ UNCHANGED <<mcp_connections, server_tools, tool_indexers, MCP_SERVERS, threads,
                   regop, nextThread, nRegOps, last>>

\* the tools the request goes on with after filtering and fallback
ToolsAfterFallback(filtered, pl) ==
    IF filtered = <<>> THEN FallbackLoop(pl, 1) ELSE filtered

\* run() ends with the neutral outcome when there is still no tool;
\* process_query has no such check
StopsWithoutTools(kind, tools) == kind = "run" /\ tools = <<>>

\* the planning call returns text `resp`; filtering, fallback and the call of
\* OrchestratorAgent.execute follow without a suspension point
A1PlanReturn(r, resp, rk, embedOk) ==
    /\ mode = "approach1"
    /\ req[r].pc = "planning"
    /\ LET rq == [req[r] EXCEPT !.resp = resp]
           p == plan(resp)
           pl == p.plan
           filtered == FilterLoop(pl, 1, rq.query, rk)
           tools == ToolsAfterFallback(filtered, pl)
           thread == IF rq.kind = "service" THEN ThreadFor(rq.sid) ELSE rq.argThread
           searched == [rq EXCEPT !.plan = pl, !.nSearch = SearchCalls(pl),
                                  !.skipped = Range(pl.servers) \ DOMAIN tool_indexers,
                                  !.selected = SelectedTools(pl, rq.query, rk),
                                  !.subqueries = SubQueries(pl, rq.query),
                                  !.tools = tools, !.fallback = (filtered = <<>>)]
       IN  IF ~p.ok
           THEN /\ embedOk
                /\ req' = [req EXCEPT ![r] = Fail(rq, p.exc)]
                /\ UNCHANGED nextThread
           ELSE IF LoopNeedsEmbedding(pl, rq.query) /\ ~embedOk
           THEN /\ req' = [req EXCEPT ![r] =
                             Fail([rq EXCEPT !.plan = pl,
                                             !.nSearch = SearchCallsUntilFailure(pl, rq.query)],
                                  EmbeddingError)]
                /\ UNCHANGED nextThread
           ELSE IF StopsWithoutTools(rq.kind, tools)
           THEN /\ embedOk
                /\ req' = [req EXCEPT ![r] =
                             [searched EXCEPT !.pc = "done",
                                              !.reply = [kind |-> "no_tools", status |-> 0,
                                                         detail |-> <<>>]]]
                /\ UNCHANGED nextThread
           ELSE /\ embedOk
                /\ req' = [req EXCEPT ![r] =
                             [searched EXCEPT !.pc = "executing", !.nExec = rq.nExec + 1,
                                              !.execThread = thread,
                                              !.runThread = IF thread = NoThread
                                                            THEN nextThread ELSE thread]]
                /\ nextThread' = IF thread = NoThread THEN nextThread + 1 ELSE nextThread
    /\ UNCHANGED <<mcp_connections, server_tools, tool_indexers, MCP_SERVERS, threads,
                   regop, nReq, nRegOps, last>>

\* mutant: a thread already stored for the session is not replaced
StoreThreadKeepsFirst(store, sid, thread) ==
    IF Truthy(sid) /\ sid \notin DOMAIN store
    THEN [k \in DOMAIN store \cup {sid} |-> IF k = sid THEN thread ELSE store[k]]
    ELSE store

\* if session_id: self.threads[session_id] = updated_thread
StoreThread(store, sid, thread) ==
    IF Truthy(sid)
    THEN [k \in DOMAIN store \cup {sid} |-> IF k = sid THEN thread ELSE store[k]]
    ELSE store

\* mutant: a request overlapped by a clear or by another request of its
\* session does not store its thread
A1ExecReturnUnlessOverlapped(r) ==
    /\ mode = "approach1"
    /\ req[r].pc = "executing"
    /\ LET rq == req[r]
           stores == rq.kind = "service" /\ ~rq.disturbed
           done == [rq EXCEPT !.pc = "done",
                              !.wrote = stores /\ Truthy(rq.sid),
                              !.reply = [kind |-> "ok", status |-> 200,
                                         detail |-> <<"answer">>]]
       IN  /\ threads' = IF stores THEN StoreThread(threads, rq.sid, rq.runThread)
                         ELSE threads
           /\ req' = [Disturb(req, rq.sid, r) EXCEPT ![r] = done]
           /\ last' = IF rq.sid \in SessionIds /\ stores
                      THEN [last EXCEPT ![rq.sid] = Produced(rq.runThread)] ELSE last
    /\ UNCHANGED <<mcp_connections, server_tools, tool_indexers, MCP_SERVERS,
                   regop, nextThread, nReq, nRegOps>>

\* the execution agent returns; execute hands back the thread it ran with
A1ExecReturn(r) ==
    /\ mode = "approach1"
    /\ req[r].pc = "executing"
    /\ LET rq == req[r]
           stores == rq.kind = "service"
           done == [rq EXCEPT !.pc = "done",
                              !.wrote = stores /\ Truthy(rq.sid),
                              !.reply = [kind |-> "ok", status |-> 200,
                                         detail |-> <<"answer">>]]
       IN  /\ threads' = IF stores THEN StoreThread(threads, rq.sid, rq.runThread)
                         ELSE threads
           /\ req' = [Disturb(req, rq.sid, r) EXCEPT ![r] = done]
           /\ last' = IF rq.sid \in SessionIds
                      THEN [last EXCEPT ![rq.sid] = Produced(rq.runThread)] ELSE last
    /\ UNCHANGED <<mcp_connections, server_tools, tool_indexers, MCP_SERVERS,
                   regop, nextThread, nReq, nRegOps>>

\* mutant: the thread handed to execute is stored although execute raised
A1ExecRaiseStores(r, e) ==
    /\ mode = "approach1"
    /\ req[r].pc = "executing"
    /\ threads' = IF req[r].kind = "service"
                  THEN StoreThread(threads, req[r].sid, req[r].runThread) ELSE threads
    /\ req' = [Disturb(req, req[r].sid, r) EXCEPT ![r] =
                 Fail([req[r] EXCEPT !.execExc = e,
                                     !.wrote = req[r].kind = "service" /\ Truthy(req[r].sid)], e)]
    /\ UNCHANGED <<mcp_connections, server_tools, tool_indexers, MCP_SERVERS,
                   regop, nextThread, nReq, nRegOps, last>>

\* the execution agent raises e
A1ExecRaise(r, e) ==
    /\ mode = "approach1"
    /\ req[r].pc = "executing"
    /\ req' = [Disturb(req, req[r].sid, r) EXCEPT ![r] =
                 Fail([req[r] EXCEPT !.execExc = e], e)]
    /\ UNCHANGED <<mcp_connections, server_tools, tool_indexers, MCP_SERVERS, threads,
                   regop, nextThread, nReq, nRegOps, last>>

\* mutant: clear_session leaves the stored thread in place
A1ClearSessionKeeps(sid) ==
    /\ mode = "approach1"
    /\ last' = [last EXCEPT ![sid] = Cleared(ThreadFor(sid))]
    /\ req' = Disturb(req, sid, 0)
    /\ UNCHANGED <<mcp_connections, server_tools, tool_indexers, MCP_SERVERS, threads,
                   regop, nextThread, nReq, nRegOps>>

\* mutant: clear_session empties the whole store
A1ClearSessionAll(sid) ==
    /\ mode = "approach1"
    /\ threads' = EmptyMap
    /\ last' = [last EXCEPT ![sid] = Cleared(ThreadFor(sid))]
    /\ req' = Disturb(req, sid, 0)
    /\ UNCHANGED <<mcp_connections, server_tools, tool_indexers, MCP_SERVERS,
                   regop, nextThread, nReq, nRegOps>>

\* AgentService.deserialize_thread: the execution agent rebuilds a thread from
\* serialized data and it is stored under session_id, with no test of the id;
\* a restore counts as a call against MaxRequests
A1DeserializeThread(sid) ==
    /\ mode = "approach1"
    /\ nReq < MaxRequests
    /\ nReq' = nReq + 1
    /\ threads' = [k \in DOMAIN threads \cup {sid} |->
                       IF k = sid THEN nextThread ELSE threads[k]]
    /\ nextThread' = nextThread + 1
    /\ last' = [last EXCEPT ![sid] = Produced(nextThread)]
    /\ req' = Disturb(req, sid, 0)
    /\ UNCHANGED <<mcp_connections, server_tools, tool_indexers, MCP_SERVERS,
                   regop, nRegOps>>

\* AgentService.clear_session
A1ClearSession(sid) ==
    /\ mode = "approach1"
    /\ threads' = [k \in DOMAIN threads \ {sid} |-> threads[k]]
    /\ last' = [last EXCEPT ![sid] = Cleared(ThreadFor(sid))]
    /\ req' = Disturb(req, sid, 0)
    /\ UNCHANGED <<mcp_connections, server_tools, tool_indexers, MCP_SERVERS,
                   regop, nextThread, nReq, nRegOps>>

(***************************************************************************)
(* approach1: RegistryService                                              *)
(***************************************************************************)
\* a registry call slot with no call in progress
NoOp == [op |-> "none", name |-> None, conn |-> 0, result |-> "none"]

NoRegOp == [op |-> "none", name |-> None, result |-> "none"]

MapPut(m, k, v) == [x \in DOMAIN m \cup {k} |-> IF x = k THEN v ELSE m[x]]
MapDel(m, k) == [x \in DOMAIN m \ {k} |-> m[x]]

\* an MCP tool whose __aenter__ returned
Connection(name) == [name |-> name, open |-> TRUE]

\* the servers in the order of the startup config
ServerOrder == <<"A", "B", "C">>

\* initialize(): one connection per server of the config, in config order
Connected(servers) ==
    LET order == SelectSeq(ServerOrder, LAMBDA n : n \in servers)
    IN  /\ conns = [i \in 1..Len(order) |-> Connection(order[i])]
        /\ registered = [n \in servers |-> CHOOSE i \in 1..Len(order) : order[i] = n]
        /\ ops = [c \in Slots |-> NoOp]
        /\ nOps = 0
        /\ initialized = TRUE

\* await mcp_tool.__aexit__(None, None, None) inside try/except: the
\* connection is closed, or the call raised and left it as it was (closed:
\* which of the two)
AfterClose(cs, id, closed) == IF closed THEN [cs EXCEPT ![id].open = FALSE] ELSE cs

\* mutant: add_server does not look the name up
AddServerBeginAnyName(name, configOk) ==
    /\ mode = "approach1"
    /\ regop.op = "none"
    /\ nRegOps < MaxRegistryOps
    /\ nRegOps' = nRegOps + 1
    /\ regop' = IF ~configOk
                THEN [NoRegOp EXCEPT !.result = "ValueError"]
                ELSE [op |-> "add", name |-> name, result |-> "none"]
    /\ UNCHANGED <<mcp_connections, server_tools, tool_indexers, MCP_SERVERS, threads,
                   req, nextThread, nReq, last, conns, registered>>

\* add_server up to the opening of the connection; configOk: the config
\* carries the url (http) or the command (stdio) its type needs
AddServerBegin(name, configOk) ==
    /\ mode = "approach1"
    /\ regop.op = "none"
    /\ nRegOps < MaxRegistryOps
    /\ nRegOps' = nRegOps + 1
    /\ regop' = IF ~initialized
                THEN [NoRegOp EXCEPT !.result = "RuntimeError"]
                ELSE IF name \in mcp_connections \/ ~configOk
                THEN [NoRegOp EXCEPT !.result = "ValueError"]
                ELSE [op |-> "add", name |-> name, result |-> "none"]
    /\ UNCHANGED <<mcp_connections, server_tools, tool_indexers, MCP_SERVERS, threads,
                   req, nextThread, nReq, last, conns, registered>>

\* the connection opened; registration and indexing follow.  indexOk: the
\* FAISSToolIndexer of the new tools was built (its embedding calls succeeded)
AddServerConnected(indexOk) ==
    /\ mode = "approach1"
    /\ regop.op = "add"
    /\ LET name == regop.name
           tools == ProviderTools(name)
       IN  /\ mcp_connections' = mcp_connections \cup {name}
           /\ conns' = Append(conns, Connection(name))
           /\ registered' = MapPut(registered, name, Len(conns) + 1)
           /\ server_tools' = MapPut(server_tools, name, tools)
           /\ IF tools = <<>>
              THEN /\ indexOk
                   /\ UNCHANGED tool_indexers
                   /\ MCP_SERVERS' = MCP_SERVERS \cup {name}
                   /\ regop' = [NoRegOp EXCEPT !.result = "ok"]
              ELSE IF indexOk
              THEN /\ tool_indexers' = MapPut(tool_indexers, name, tools)
                   /\ MCP_SERVERS' = MCP_SERVERS \cup {name}
                   /\ regop' = [NoRegOp EXCEPT !.result = "ok"]
              ELSE /\ UNCHANGED <<tool_indexers, MCP_SERVERS>>
                   /\ regop' = [NoRegOp EXCEPT !.result = "error"]
    /\ UNCHANGED <<threads, req, nextThread, nReq, nRegOps, last>>

\* opening the connection raised: nothing was registered
AddServerConnectFails ==
    /\ mode = "approach1"
    /\ regop.op = "add"
    /\ regop' = [NoRegOp EXCEPT !.result = "error"]
    /\ UNCHANGED <<mcp_connections, server_tools, tool_indexers, MCP_SERVERS, threads,
                   req, nextThread, nReq, nRegOps, last, conns, registered>>

\* remove_server up to the closing of the connection
RemoveServerBegin(name) ==
    /\ mode = "approach1"
    /\ regop.op = "none"
    /\ nRegOps < MaxRegistryOps
    /\ nRegOps' = nRegOps + 1
    /\ regop' = IF ~initialized
                THEN [NoRegOp EXCEPT !.result = "RuntimeError"]
                ELSE IF name \notin mcp_connections
                THEN [NoRegOp EXCEPT !.result = "ValueError"]
                ELSE [op |-> "remove", name |-> name, result |-> "none"]
    /\ UNCHANGED <<mcp_connections, server_tools, tool_indexers, MCP_SERVERS, threads,
                   req, nextThread, nReq, last, conns, registered>>

\* mutant: an exception of the close leaves remove_server
RemoveServerClosedUnlessRaised ==
    /\ mode = "approach1"
    /\ regop.op = "remove"
    /\ \E closed \in BOOLEAN :
          /\ conns' = AfterClose(conns, registered[regop.name], closed)
          /\ IF closed
             THEN /\ registered' = MapDel(registered, regop.name)
                  /\ mcp_connections' = mcp_connections \ {regop.name}
                  /\ server_tools' = MapDel(server_tools, regop.name)
                  /\ tool_indexers' = MapDel(tool_indexers, regop.name)
                  /\ MCP_SERVERS' = MCP_SERVERS \ {regop.name}
                  /\ regop' = [NoRegOp EXCEPT !.result = "ok"]
             ELSE /\ UNCHANGED <<registered, mcp_connections, server_tools, tool_indexers,
                                 MCP_SERVERS>>
                  /\ regop' = [NoRegOp EXCEPT !.result = "error"]
    /\ UNCHANGED <<threads, req, nextThread, nReq, nRegOps, last>>

\* the connection closed (or closing raised, which is only logged)
RemoveServerClosed ==
    /\ mode = "approach1"
    /\ regop.op = "remove"
    /\ \E closed \in BOOLEAN :
          conns' = AfterClose(conns, registered[regop.name], closed)
    /\ registered' = MapDel(registered, regop.name)
    /\ mcp_connections' = mcp_connections \ {regop.name}
    /\ server_tools' = MapDel(server_tools, regop.name)
    /\ tool_indexers' = MapDel(tool_indexers, regop.name)
    /\ MCP_SERVERS' = MCP_SERVERS \ {regop.name}
    /\ regop' = [NoRegOp EXCEPT !.result = "ok"]
    /\ UNCHANGED <<threads, req, nextThread, nReq, nRegOps, last>>

(***************************************************************************)
(* The lifespan of AgentService: initialize, list_servers, shutdown         *)
(***************************************************************************)
\* what these calls leave alone
LifespanFrame == UNCHANGED <<threads, req, regop, nextThread, nReq, nRegOps, last>>

\* list_servers: reads the registry, or raises RuntimeError
ListServers ==
    /\ mode = "approach1"
    /\ regop.op = "none"
    /\ nRegOps < MaxRegistryOps
    /\ nRegOps' = nRegOps + 1
    /\ regop' = [NoRegOp EXCEPT !.result = IF initialized THEN "ok" ELSE "RuntimeError"]
    /\ UNCHANGED <<mcp_connections, server_tools, tool_indexers, MCP_SERVERS, threads,
                   req, nextThread, nReq, last, conns, registered>>

\* AgentService.initialize up to await self.agent.initialize(): returns at
\* once when _initialized, else self.agent is a new MultiMCPAgentWithFiltering
ServiceInitialize ==
    /\ mode = "approach1"
    /\ ops[1].op = "none"
    /\ nOps < MaxRegistryCalls
    /\ nOps' = nOps + 1
    /\ IF initialized
       THEN /\ ops' = [ops EXCEPT ![1] = [NoOp EXCEPT !.result = "ok"]]
            /\ UNCHANGED <<mcp_connections, registered, server_tools, tool_indexers>>
       ELSE /\ ops' = [ops EXCEPT ![1] = [NoOp EXCEPT !.op = "initialize"]]
            /\ mcp_connections' = {}
            /\ registered' = EmptyMap
            /\ server_tools' = EmptyMap
            /\ tool_indexers' = EmptyMap
    /\ UNCHANGED <<MCP_SERVERS, conns, planning_servers, initialized>>
    /\ LifespanFrame

\* MultiMCPAgentWithFiltering.initialize returned (ok) and _initialized is
\* set, or the first connection raised and initialize raises
ServiceInitialized(ok) ==
    /\ mode = "approach1"
    /\ ops[1].op = "initialize"
    /\ LET order == SelectSeq(ServerOrder, LAMBDA n : n \in MCP_SERVERS)
       IN  IF ok
           THEN /\ conns' = conns \o [i \in 1..Len(order) |-> Connection(order[i])]
                /\ registered' = [n \in MCP_SERVERS |->
                                     Len(conns) + CHOOSE i \in 1..Len(order) : order[i] = n]
                /\ mcp_connections' = MCP_SERVERS
                /\ server_tools' = [n \in MCP_SERVERS |-> ProviderTools(n)]
                /\ tool_indexers' = [n \in {m \in MCP_SERVERS : ProviderTools(m) # <<>>} |->
                                         ProviderTools(n)]
                /\ planning_servers' = MCP_SERVERS
                /\ initialized' = TRUE
                /\ ops' = [ops EXCEPT ![1] = [NoOp EXCEPT !.result = "ok"]]
           ELSE /\ ops' = [ops EXCEPT ![1] = [NoOp EXCEPT !.result = "error"]]
                /\ UNCHANGED <<conns, registered, mcp_connections, server_tools,
                               tool_indexers, planning_servers, initialized>>
    /\ UNCHANGED <<MCP_SERVERS, nOps>>
    /\ LifespanFrame

\* AgentService.shutdown up to await self.agent.disconnect()
ServiceShutdown ==
    /\ mode = "approach1"
    /\ ops[2].op = "none"
    /\ nOps < MaxRegistryCalls
    /\ nOps' = nOps + 1
    /\ ops' = [ops EXCEPT ![2] =
                 IF initialized THEN [NoOp EXCEPT !.op = "shutdown"]
                 ELSE [NoOp EXCEPT !.result = "ok"]]
    /\ UNCHANGED <<mcp_connections, registered, server_tools, tool_indexers, MCP_SERVERS,
                   conns, planning_servers, initialized>>
    /\ LifespanFrame

\* disconnect(): every registered connection is closed (a close that raises
\* is passed over: stays) and mcp_connections cleared
ServiceDisconnected(stays) ==
    /\ mode = "approach1"
    /\ ops[2].op = "shutdown"
    /\ stays \subseteq DOMAIN registered
    /\ conns' = [i \in 1..Len(conns) |->
                   IF \E n \in DOMAIN registered \ stays : registered[n] = i
                   THEN [conns[i] EXCEPT !.open = FALSE] ELSE conns[i]]
    /\ registered' = EmptyMap
    /\ mcp_connections' = {}
    /\ ops' = [ops EXCEPT ![2] = [NoOp EXCEPT !.op = "disconnected"]]
    /\ UNCHANGED <<server_tools, tool_indexers, MCP_SERVERS, planning_servers,
                   initialized, nOps>>
    /\ LifespanFrame

\* orchestrator.shutdown() returned: self._initialized = False
ServiceShutdownCompletes ==
    /\ mode = "approach1"
    /\ ops[2].op = "disconnected"
    /\ initialized' = FALSE
    /\ ops' = [ops EXCEPT ![2] = [NoOp EXCEPT !.result = "ok"]]
    /\ UNCHANGED <<mcp_connections, registered, server_tools, tool_indexers, MCP_SERVERS,
                   conns, planning_servers, nOps>>
    /\ LifespanFrame

(***************************************************************************)
(* approach2: APIHandlers.execute_query                                    *)
(***************************************************************************)
\* an agent dict; source is the key merge_agents adds (None: no such key)
AgentInfo(requires_mcp, server) ==
    [requires_mcp |-> requires_mcp, mcp_server |-> server, source |-> None]

\* load_code_based_agents(): the agents registered in code
CodeAgents ==
    [n \in {"x", "y"} |-> IF n = "x" THEN AgentInfo(FALSE, None) ELSE AgentInfo(TRUE, "A")]

\* the rows of agent_registry at startup, left by add_agent calls of earlier
\* runs: w names a server that is not in the config, y has the name of a
\* code-based agent
InitialDbAgents ==
    [n \in {"w", "y"} |-> IF n = "w" THEN AgentInfo(TRUE, "gone") ELSE AgentInfo(FALSE, None)]

\* mutant: the database entry wins
merge_agents_db_first(code_agents, db) ==
    [n \in DOMAIN code_agents \cup DOMAIN db |->
        IF n \in DOMAIN db
        THEN [db[n] EXCEPT !.source = "database"]
        ELSE [code_agents[n] EXCEPT !.source = "code"]]

\* merge_agents: every code-based agent, then the database agents whose name
\* is not in code
merge_agents(code_agents, db) ==
    [n \in DOMAIN code_agents \cup DOMAIN db |->
        IF n \in DOMAIN code_agents
        THEN [code_agents[n] EXCEPT !.source = "code"]
        ELSE [db[n] EXCEPT !.source = "database"]]

\* agents_cache after startup: code-based and database agents merged
InitialAgents == merge_agents(CodeAgents, InitialDbAgents)

InitialMcpServers == {"A"}        \* load_mcp_servers_from_config()

\* no agent or MCP server call made yet
NoCall2 == [op |-> "none", name |-> None, status |-> 0]

MkPlan2(agents, tq) == [agents |-> agents, tool_queries |-> tq]
NoPlan2 == MkPlan2(<<>>, EmptyMap)

A2PlanPool ==
    { MkPlan2(<<>>, EmptyMap),
      MkPlan2(<<"x">>, EmptyMap),
      MkPlan2(<<"y">>, [a \in {"y"} |-> SubQuery]),
      MkPlan2(<<"y">>, EmptyMap),
      MkPlan2(<<"ghost", "x">>, EmptyMap),
      MkPlan2(<<"w">>, EmptyMap),
      MkPlan2(<<"x", "y">>, [a \in {"y"} |-> SubQuery]) }

A2Responses ==
    {<<Doc(d)>> : d \in A2PlanPool}
    \cup { <<FENCE, TAG, WS, Doc(MkPlan2(<<"x">>, EmptyMap)), WS, FENCE>>,
           <<NotJson>>,
           <<JsonList>> }

BlankQuery == <<" ">>

\* request.query.strip()
RECURSIVE StripText(_)
StripText(q) ==
    IF q = <<>> THEN q
    ELSE IF Head(q) = " " THEN StripText(Tail(q))
    ELSE IF q[Len(q)] = " " THEN StripText(SubSeq(q, 1, Len(q) - 1))
    ELSE q

\* what the workflow run does, as far as execute() can tell:
\*   raised:  run_stream raised exc
\*   silent:  no WorkflowOutputEvent
\*   output:  an output event without a thread attribute
\*   thread:  an output event whose thread attribute is `thread`
Workflow(kind, thread, exc) == [kind |-> kind, thread |-> thread, exc |-> exc]

A2IdleReq ==
    [ pc |-> "idle",           \* idle | planning | connecting | executing | done
      query |-> <<>>,
      sid |-> None,
      thread |-> NoThread,     \* self.threads.get(session_id), read first
      shortlist |-> <<>>,      \* selected_agent_names
      resp |-> <<>>,
      plan |-> NoPlan2,
      skipped |-> {},          \* planned agents Step 3 found no info for
      mcp |-> {},              \* agents an MCP tool was created for
      agents |-> EmptyMap,     \* agents_dict: agent name -> its tools
      subqueries |-> EmptyMap, \* agent -> the tool_query its tool index was searched with
      execThread |-> NoThread, \* thread argument of MagenticOrchestrator.execute
      updated |-> NoThread,    \* orchestrator.updated_thread
      execExc |-> NoExc,       \* what the workflow raised inside execute
      nPlan |-> 0,
      nSearch |-> 0,           \* tool index searches (create_agent_instance)
      nExec |-> 0,
      wrote |-> FALSE,
      reply |-> NoReply,
      pre |-> Fresh,
      disturbed |-> FALSE ]

A2InFlight(rq) == rq.pc \in {"planning", "connecting", "executing"}

A2Disturb(rqs, sid, r) ==
    [x \in Slots |->
        IF x # r /\ sid \in SessionIds /\ rqs[x].sid = sid /\ A2InFlight(rqs[x])
        THEN [rqs[x] EXCEPT !.disturbed = TRUE] ELSE rqs[x]]

\* raise HTTPException(status_code=400, ...) before the try block
A2BadRequest(msg) == [kind |-> "error", status |-> 400, detail |-> <<msg>>]

\* except Exception as e: raise HTTPException(500, f"{type(e).__name__}: {str(e)}")
A2RouteError(e) == [kind |-> "error", status |-> 500, detail |-> <<e.cls, e.msg>>]

A2Fail(rq, e) == [rq EXCEPT !.pc = "done", !.reply = A2RouteError(e)]

\* AgentIndexer.search(query, top_k=3): the nearest min(3, n) agents
AgentShortlists ==
    LET names == DOMAIN agents_cache
        k == Min(3, Cardinality(names))
    IN  {q \in InjSeqs(names, k) : Len(q) = k /\ Distinct(q)}

\* execute_query up to the planner call
A2Start(r, query, sid, shortlist, embedOk) ==
    /\ mode = "approach2"
    /\ a2_req[r].pc \in {"idle", "done"}
    /\ a2_nReq' = a2_nReq + 1
    /\ LET rq == [A2IdleReq EXCEPT !.query = StripText(query), !.sid = sid,
                      !.pre = IF sid \in SessionIds THEN a2_last[sid] ELSE Fresh,
                      !.disturbed = \E x \in Slots \ {r} :
                          /\ sid \in SessionIds
                          /\ a2_req[x].sid = sid
                          /\ A2InFlight(a2_req[x])]
           thread == IF Truthy(sid) /\ sid \in DOMAIN a2_threads
                     THEN a2_threads[sid] ELSE NoThread
       IN  a2_req' = [a2_req EXCEPT ![r] =
              IF StripText(query) = <<>>
              THEN [rq EXCEPT !.pc = "done", !.reply = A2BadRequest("Empty query")]
              ELSE IF DOMAIN agents_cache = {}
              THEN [rq EXCEPT !.pc = "done", !.reply = A2BadRequest("No agents registered")]
              ELSE IF ~embedOk
              THEN A2Fail([rq EXCEPT !.thread = thread], EmbeddingError)
              ELSE [rq EXCEPT !.pc = "planning", !.thread = thread,
                              !.shortlist = shortlist, !.nPlan = rq.nPlan + 1]]
    /\ UNCHANGED <<db_agents, a2_call, agents_cache, mcp_servers, a2_threads, a2_nextThread, a2_last>>

\* OrchestratorPlanner.plan on the completion's content t (no fence stripping)
plan2(t) ==
    IF ~JsonValid(t)
    THEN [ok |-> FALSE, plan |-> NoPlan2, exc |-> Exc("JSONDecodeError", "Expecting value")]
    ELSE IF ~IsPlanObject(JsonLoads(t))
    THEN [ok |-> FALSE, plan |-> NoPlan2, exc |-> Exc("TypeError", "list indices")]
    ELSE [ok |-> TRUE, plan |-> JsonLoads(t).v, exc |-> NoExc]

\* Step 3: the planned agents that get an MCP tool
McpAgents(pl) ==
    {pl.agents[i] : i \in {j \in 1..Len(pl.agents) :
        /\ pl.agents[j] \in DOMAIN agents_cache
        /\ agents_cache[pl.agents[j]].requires_mcp}}

\* Step 3 raises when a planned MCP agent's server is not configured
McpNotConfigured(pl) ==
    \E a \in McpAgents(pl) : agents_cache[a].mcp_server \notin mcp_servers

\* Step 4: self.agents_cache[agent_name] raises KeyError for an unknown name
UnknownAgent(pl) == \E i \in 1..Len(pl.agents) : pl.agents[i] \notin DOMAIN agents_cache

\* create_agent_instance: the tools of the agent's instance
InstanceTools(pl, a, mcp, rk) ==
    IF agents_cache[a].requires_mcp /\ a \in mcp
    THEN LET all_functions == ProviderTools(agents_cache[a].mcp_server)
         IN  IF a \in DOMAIN pl.tool_queries /\ all_functions # <<>>
             THEN LET relevant == Search(all_functions, pl.tool_queries[a], 10, rk)
                  IN  Functions(SelectSeq(all_functions,
                                          LAMBDA t : InSeq(t.name, Names(relevant))))
             ELSE Functions(all_functions)
    ELSE <<>>

\* create_agent_instance searches a tool index for agent a
InstanceSearches(pl, a, mcp) ==
    /\ agents_cache[a].requires_mcp /\ a \in mcp
    /\ a \in DOMAIN pl.tool_queries
    /\ ProviderTools(agents_cache[a].mcp_server) # <<>>

\* Step 4: agents_dict, then MagenticOrchestrator.execute(query, thread=thread)
A2BuildAndExecute(rq, rk) ==
    LET pl == rq.plan
    IN  IF UnknownAgent(pl)
        THEN A2Fail(rq, Exc("KeyError", "agent"))
        ELSE [rq EXCEPT !.pc = "executing",
                        !.agents = [a \in Range(pl.agents) |-> InstanceTools(pl, a, rq.mcp, rk)],
                        !.subqueries = [a \in {b \in Range(pl.agents) :
                                                    InstanceSearches(pl, b, rq.mcp)} |->
                                           pl.tool_queries[a]],
                        !.nSearch = Cardinality({a \in Range(pl.agents) :
                                                    InstanceSearches(pl, a, rq.mcp)}),
                        !.nExec = rq.nExec + 1,
                        !.execThread = rq.thread,
                        !.updated = rq.thread]

\* the planner call returns content `resp`
A2PlanReturn(r, resp, rk) ==
    /\ mode = "approach2"
    /\ a2_req[r].pc = "planning"
    /\ LET rq == [a2_req[r] EXCEPT !.resp = resp]
           p == plan2(resp)
           planned == [rq EXCEPT !.plan = p.plan, !.mcp = McpAgents(p.plan),
                                 !.skipped = Range(p.plan.agents) \ DOMAIN agents_cache]
       IN  a2_req' = [a2_req EXCEPT ![r] =
              IF ~p.ok THEN A2Fail(rq, p.exc)
              ELSE IF McpNotConfigured(p.plan)
              THEN A2Fail([planned EXCEPT !.mcp = {}],
                          Exc("HTTPException", "MCP server not configured"))
              ELSE IF McpAgents(p.plan) # {}
              THEN [planned EXCEPT !.pc = "connecting"]
              ELSE A2BuildAndExecute(planned, rk)]
    /\ UNCHANGED <<db_agents, a2_call, agents_cache, mcp_servers, a2_threads, a2_nextThread,
                   a2_nReq, a2_last>>

\* the MCP tools of the request were entered (or entering one raised)
A2Connected(r, ok, rk) ==
    /\ mode = "approach2"
    /\ a2_req[r].pc = "connecting"
    /\ a2_req' = [a2_req EXCEPT ![r] =
                    IF ok THEN A2BuildAndExecute(a2_req[r], rk)
                    ELSE A2Fail(a2_req[r], Exc("ConnectionError", "mcp"))]
    /\ UNCHANGED <<db_agents, a2_call, agents_cache, mcp_servers, a2_threads, a2_nextThread,
                   a2_nReq, a2_last>>

\* MagenticOrchestrator.execute: self.updated_thread after the run
UpdatedThread(thread, wf) == IF wf.kind = "thread" THEN wf.thread ELSE thread

\* MagenticOrchestrator.execute: the string it returns
ExecuteResult(wf) ==
    CASE wf.kind = "raised" -> <<"Error", wf.exc.msg>>
      [] wf.kind = "silent" -> <<"Workflow completed without result">>
      [] OTHER              -> <<"answer">>

\* getattr(orchestrator, 'updated_thread', None) or thread
ThreadToStore(updated, thread) == IF updated # NoThread THEN updated ELSE thread

\* mutant: a thread already stored for the session is kept
A2StoreThreadKeepsFirst(store, sid, updated_thread) ==
    IF Truthy(sid) /\ updated_thread # NoThread /\ sid \notin DOMAIN store
    THEN MapPut(store, sid, updated_thread)
    ELSE store

\* if request.session_id and updated_thread: self.threads[...] = updated_thread
A2StoreThread(store, sid, updated_thread) ==
    IF Truthy(sid) /\ updated_thread # NoThread
    THEN MapPut(store, sid, updated_thread)
    ELSE store

\* MagenticOrchestrator.execute returns (it never raises); the thread is
\* stored, the response built, the MCP tools closed (closeOk: none raised)
A2ExecReturn(r, wf, closeOk) ==
    /\ mode = "approach2"
    /\ a2_req[r].pc = "executing"
    /\ wf.kind = "thread" /\ wf.thread # NoThread /\ wf.thread # a2_req[r].thread
          => wf.thread = a2_nextThread
    /\ closeOk \/ a2_req[r].mcp # {}
    /\ LET rq == a2_req[r]
           updated == UpdatedThread(rq.thread, wf)
           to_store == ThreadToStore(updated, rq.thread)
           done == [rq EXCEPT !.pc = "done",
                              !.updated = updated,
                              !.execExc = wf.exc,
                              !.wrote = Truthy(rq.sid) /\ to_store # NoThread,
                              !.reply = IF closeOk
                                        THEN [kind |-> "ok", status |-> 200,
                                              detail |-> ExecuteResult(wf)]
                                        ELSE A2RouteError(Exc("ConnectionError", "close"))]
       IN  /\ a2_threads' = A2StoreThread(a2_threads, rq.sid, to_store)
           /\ a2_req' = [A2Disturb(a2_req, rq.sid, r) EXCEPT ![r] = done]
           /\ a2_last' = IF rq.sid \in SessionIds
                         THEN [a2_last EXCEPT ![rq.sid] = Produced(updated)]
                         ELSE a2_last
           /\ a2_nextThread' = IF wf.kind = "thread" /\ wf.thread = a2_nextThread
                               THEN a2_nextThread + 1 ELSE a2_nextThread
    /\ UNCHANGED <<db_agents, a2_call, agents_cache, mcp_servers, a2_nReq>>

\* APIHandlers.clear_session
A2ClearSession(sid) ==
    /\ mode = "approach2"
    /\ a2_threads' = MapDel(a2_threads, sid)
    /\ a2_last' = [a2_last EXCEPT ![sid] = Cleared(IF sid \in DOMAIN a2_threads THEN a2_threads[sid] ELSE NoThread)]
    /\ a2_req' = A2Disturb(a2_req, sid, 0)
    /\ UNCHANGED <<db_agents, a2_call, agents_cache, mcp_servers, a2_nextThread, a2_nReq>>

(***************************************************************************)
(* approach2: the agent and MCP server calls of APIHandlers                *)
(***************************************************************************)
Call2(op, name, status) == [op |-> op, name |-> name, status |-> status]

QueriesFrame == UNCHANGED <<a2_threads, a2_req, a2_nextThread, a2_nReq, a2_last>>

\* the agents of agents_cache whose mcp_server is name
UsingAgents(name) == {a \in DOMAIN agents_cache : agents_cache[a].mcp_server = name}

\* add_mcp_server
AddMcpServer(name) ==
    /\ mode = "approach2"
    /\ IF name \in mcp_servers
       THEN /\ a2_call' = Call2("add_mcp_server", name, 400)
            /\ UNCHANGED mcp_servers
       ELSE /\ a2_call' = Call2("add_mcp_server", name, 200)
            /\ mcp_servers' = mcp_servers \cup {name}
    /\ UNCHANGED <<agents_cache, db_agents>>
    /\ QueriesFrame

\* delete_mcp_server
DeleteMcpServer(name) ==
    /\ mode = "approach2"
    /\ IF name \notin mcp_servers
       THEN /\ a2_call' = Call2("delete_mcp_server", name, 404)
            /\ UNCHANGED mcp_servers
       ELSE IF UsingAgents(name) # {}
       THEN /\ a2_call' = Call2("delete_mcp_server", name, 400)
            /\ UNCHANGED mcp_servers
       ELSE /\ a2_call' = Call2("delete_mcp_server", name, 200)
            /\ mcp_servers' = mcp_servers \ {name}
    /\ UNCHANGED <<agents_cache, db_agents>>
    /\ QueriesFrame

\* mutant: add_agent does not look the server up
AddAgentAnyServer(name, info, dbUp) ==
    /\ mode = "approach2"
    /\ IF dbUp /\ name \in DOMAIN db_agents
       THEN /\ a2_call' = Call2("add_agent", name, 400)
            /\ UNCHANGED <<agents_cache, db_agents>>
       ELSE IF ~dbUp
       THEN /\ a2_call' = Call2("add_agent", name, 500)
            /\ UNCHANGED <<agents_cache, db_agents>>
       ELSE /\ a2_call' = Call2("add_agent", name, 200)
            /\ db_agents' = MapPut(db_agents, name, info)
            /\ agents_cache' = MapPut(agents_cache, name, info)
    /\ UNCHANGED mcp_servers
    /\ QueriesFrame

\* add_agent; with the database down (~dbUp) agent_exists answers False and
\* create_agent raises
AddAgent(name, info, dbUp) ==
    /\ mode = "approach2"
    /\ IF dbUp /\ name \in DOMAIN db_agents
       THEN /\ a2_call' = Call2("add_agent", name, 400)
            /\ UNCHANGED <<agents_cache, db_agents>>
       ELSE IF info.requires_mcp /\ Truthy(info.mcp_server)
               /\ info.mcp_server \notin mcp_servers
       THEN /\ a2_call' = Call2("add_agent", name, 400)
            /\ UNCHANGED <<agents_cache, db_agents>>
       ELSE IF ~dbUp
       THEN /\ a2_call' = Call2("add_agent", name, 500)
            /\ UNCHANGED <<agents_cache, db_agents>>
       ELSE /\ a2_call' = Call2("add_agent", name, 200)
            /\ db_agents' = MapPut(db_agents, name, info)
            /\ agents_cache' = MapPut(agents_cache, name, info)
    /\ UNCHANGED mcp_servers
    /\ QueriesFrame

\* list_agents: agents_cache is replaced by load_all_agents(), which answers
\* {} when the database is down
ListAgents(dbUp) ==
    /\ mode = "approach2"
    /\ agents_cache' = IF dbUp THEN db_agents ELSE EmptyMap
    /\ a2_call' = Call2("list_agents", None, 200)
    /\ UNCHANGED <<mcp_servers, db_agents>>
    /\ QueriesFrame

\* delete_agent; db.delete_agent answers False when no row was deleted or
\* the database is down
DeleteAgent(name, dbUp) ==
    /\ mode = "approach2"
    /\ IF dbUp /\ name \in DOMAIN db_agents
       THEN /\ a2_call' = Call2("delete_agent", name, 200)
            /\ db_agents' = MapDel(db_agents, name)
            /\ agents_cache' = MapDel(agents_cache, name)
       ELSE /\ a2_call' = Call2("delete_agent", name, 404)
            /\ UNCHANGED <<agents_cache, db_agents>>
    /\ UNCHANGED mcp_servers
    /\ QueriesFrame

\* the workflow outcomes execute() can meet when it was given `thread`
Workflows(thread) ==
    {Workflow("raised", NoThread, e) : e \in ExecErrors}
    \cup {Workflow("silent", NoThread, NoExc), Workflow("output", NoThread, NoExc)}
    \cup {Workflow("thread", t, NoExc) : t \in {NoThread, thread, a2_nextThread}}

(***************************************************************************)
(* Overlapping calls of RegistryService and the shutdown of the service     *)
(***************************************************************************)
\* add_server up to await mcp_tool.__aenter__()
CallAddServer(c, name) ==
    /\ mode = "registry"
    /\ ops[c].op = "none"
    /\ nOps < MaxRegistryCalls
    /\ nOps' = nOps + 1
    /\ ops' = [ops EXCEPT ![c] =
                 IF ~initialized THEN [NoOp EXCEPT !.result = "RuntimeError"]
                 ELSE IF name \in mcp_connections THEN [NoOp EXCEPT !.result = "ValueError"]
                 ELSE [op |-> "add", name |-> name, conn |-> 0, result |-> "none"]]
    /\ UNCHANGED <<mcp_connections, server_tools, tool_indexers, MCP_SERVERS, conns,
                   registered, initialized>>

\* __aenter__ returned in add_server: the connection is stored under the
\* name, whatever is stored there, then the tools are indexed (indexOk) and
\* MCP_SERVERS updated
AddConnected(c, indexOk) ==
    /\ mode = "registry"
    /\ ops[c].op = "add"
    /\ LET name == ops[c].name
           tools == ProviderTools(name)
       IN  /\ conns' = Append(conns, Connection(name))
           /\ registered' = MapPut(registered, name, Len(conns) + 1)
           /\ mcp_connections' = mcp_connections \cup {name}
           /\ IF tools = <<>>
              THEN /\ indexOk
                   /\ server_tools' = MapPut(server_tools, name, <<>>)
                   /\ UNCHANGED tool_indexers
                   /\ MCP_SERVERS' = MCP_SERVERS \cup {name}
                   /\ ops' = [ops EXCEPT ![c] = [NoOp EXCEPT !.result = "ok"]]
              ELSE IF indexOk
              THEN /\ server_tools' = MapPut(server_tools, name, tools)
                   /\ tool_indexers' = MapPut(tool_indexers, name, tools)
                   /\ MCP_SERVERS' = MCP_SERVERS \cup {name}
                   /\ ops' = [ops EXCEPT ![c] = [NoOp EXCEPT !.result = "ok"]]
              ELSE /\ server_tools' = MapPut(server_tools, name, tools)
                   /\ UNCHANGED <<tool_indexers, MCP_SERVERS>>
                   /\ ops' = [ops EXCEPT ![c] = [NoOp EXCEPT !.result = "error"]]
    /\ UNCHANGED <<nOps, initialized>>

\* __aenter__ raised in add_server: no connection, nothing registered
AddConnectFails(c) ==
    /\ mode = "registry"
    /\ ops[c].op = "add"
    /\ ops' = [ops EXCEPT ![c] = [NoOp EXCEPT !.result = "error"]]
    /\ UNCHANGED <<mcp_connections, server_tools, tool_indexers, MCP_SERVERS, conns,
                   registered, nOps, initialized>>

\* remove_server up to await mcp_tool.__aexit__(...): mcp_tool is read here
CallRemoveServer(c, name) ==
    /\ mode = "registry"
    /\ ops[c].op = "none"
    /\ nOps < MaxRegistryCalls
    /\ nOps' = nOps + 1
    /\ ops' = [ops EXCEPT ![c] =
                 IF ~initialized THEN [NoOp EXCEPT !.result = "RuntimeError"]
                 ELSE IF name \notin mcp_connections THEN [NoOp EXCEPT !.result = "ValueError"]
                 ELSE [op |-> "remove", name |-> name, conn |-> registered[name],
                       result |-> "none"]]
    /\ UNCHANGED <<mcp_connections, server_tools, tool_indexers, MCP_SERVERS, conns,
                   registered, initialized>>

\* __aexit__ returned or raised in remove_server; then the entries of the name
\* are deleted: del mcp_connections[server_name] raises KeyError when an
\* overlapping call deleted it already
RemoveClosed(c, closed) ==
    /\ mode = "registry"
    /\ ops[c].op = "remove"
    /\ LET name == ops[c].name
       IN  /\ conns' = AfterClose(conns, ops[c].conn, closed)
           /\ IF name \notin mcp_connections
              THEN /\ ops' = [ops EXCEPT ![c] = [NoOp EXCEPT !.result = "KeyError"]]
                   /\ UNCHANGED <<mcp_connections, registered, server_tools,
                                  tool_indexers, MCP_SERVERS>>
              ELSE /\ ops' = [ops EXCEPT ![c] = [NoOp EXCEPT !.result = "ok"]]
                   /\ mcp_connections' = mcp_connections \ {name}
                   /\ registered' = MapDel(registered, name)
                   /\ server_tools' = MapDel(server_tools, name)
                   /\ tool_indexers' = MapDel(tool_indexers, name)
                   /\ MCP_SERVERS' = MCP_SERVERS \ {name}
    /\ UNCHANGED <<nOps, initialized>>

\* AgentService.shutdown at the end of the service's lifespan, when no call
\* is being served: disconnect() closes every registered connection (a
\* close that raises is passed over: stays), clears mcp_connections
Shutdown(stays) ==
    /\ mode = "registry"
    /\ initialized
    /\ \A c \in Slots : ops[c].op = "none"
    /\ stays \subseteq DOMAIN registered
    /\ conns' = [i \in 1..Len(conns) |->
                   IF \E n \in DOMAIN registered \ stays : registered[n] = i
                   THEN [conns[i] EXCEPT !.open = FALSE] ELSE conns[i]]
    /\ registered' = EmptyMap
    /\ mcp_connections' = {}
    /\ initialized' = FALSE
    /\ UNCHANGED <<server_tools, tool_indexers, MCP_SERVERS, ops, nOps>>

(***************************************************************************)
(* The on-disk index cache: BaseFAISSIndexer, FAISSToolIndexer,            *)
(* AgentIndexer                                                            *)
(***************************************************************************)
\* A file of cache/faiss_indexes: absent, or holding data
NoFile == [exists |-> FALSE, data |-> <<>>]
FileOf(d) == [exists |-> TRUE, data |-> d]
NoFiles == [index |-> NoFile, meta |-> NoFile]

\* tool_{server_name}.faiss/.pkl of server A, and agent_index.faiss/.pkl
Collections == {"tool_A", "agent_index"}

CollectionOf(cls) == IF cls = "tool" THEN "tool_A" ELSE "agent_index"

\* f"{name}: {description}", the text handed to get_embedding for an item
EmbeddingText(item) == item.name \o <<":", " ">> \o item.description

RECURSIVE CountChar(_, _)
CountChar(text, c) ==
    IF text = <<>> THEN 0
    ELSE (IF Lower(<<Head(text)>>) = <<c>> THEN 1 ELSE 0) + CountChar(Tail(text), c)

\* get_embedding(text): a deterministic embedding, here the vector of the
\* numbers of a's, b's and z's of the text
get_embedding(text) ==
    <<CountChar(text, "a"), CountChar(text, "b"), CountChar(text, "z")>>

\* squared L2 distance of IndexFlatL2
L2(u, v) ==
    (u[1] - v[1]) * (u[1] - v[1]) + (u[2] - v[2]) * (u[2] - v[2])
        + (u[3] - v[3]) * (u[3] - v[3])

\* the nearest vector of the index not taken yet (the lower position on a tie)
Nearest(index, q, taken) ==
    CHOOSE i \in (1..Len(index)) \ taken :
        \A j \in (1..Len(index)) \ taken :
            \/ L2(index[i], q) < L2(index[j], q)
            \/ L2(index[i], q) = L2(index[j], q) /\ i <= j

\* index.search(query_emb, k): the positions of the k nearest vectors, nearest
\* first; position 0 stands for the -1 faiss pads the answer with when the
\* index holds fewer than k vectors
RECURSIVE VectorSearchFrom(_, _, _, _)
VectorSearchFrom(index, q, k, taken) ==
    IF k = 0 THEN <<>>
    ELSE IF taken = 1..Len(index)
         THEN <<0>> \o VectorSearchFrom(index, q, k - 1, taken)
         ELSE LET i == Nearest(index, q, taken)
              IN  <<i>> \o VectorSearchFrom(index, q, k - 1, taken \cup {i})

VectorSearch(index, q, k) == VectorSearchFrom(index, q, k, {})

\* self.tools[idx] for the idx the index answered: -1 is the last element
PyPositions(items, indices) ==
    [i \in 1..Len(indices) |-> IF indices[i] = 0 THEN Len(items) ELSE indices[i]]

\* self.tools[idx] raises IndexError
IndexErrorIn(items, indices) == \E i \in 1..Len(indices) : indices[i] > Len(items)

\* tool_info = [(t['name'], t['description']) for t in tools], and
\* list(agents_info.items())
Fingerprint(items) ==
    [i \in 1..Len(items) |-> <<items[i].name, items[i].description>>]

\* _build_index: one embedding per item, added to an IndexFlatL2 in list order
BuildIndex(items) == [i \in 1..Len(items) |-> get_embedding(EmbeddingText(items[i]))]

\* mutant: the vectors come back from the file in reverse order
ReadIndexReversed(file) == [i \in 1..Len(file.data) |-> file.data[Len(file.data) + 1 - i]]

\* faiss.read_index(index_path)
ReadIndex(file) == file.data

\* mutant: the cache is never taken
CacheHitNever(files, current_data) == FALSE

\* mutant: the fingerprints are compared as sets
CacheHitAnyOrder(files, current_data) ==
    /\ files.index.exists /\ files.meta.exists
    /\ Range(files.meta.data) = Range(current_data)

\* both files exist and the unpickled fingerprint equals current_data
CacheHit(files, current_data) ==
    /\ files.index.exists /\ files.meta.exists
    /\ files.meta.data = current_data

\* FAISSToolIndexer.search on an indexer holding items and index
ToolSearchOutcome(items, index, query, top_k) ==
    IF NeedsSemantic(items, query, top_k)
    THEN LET indices == VectorSearch(index, get_embedding(query), SemanticK(items, top_k))
         IN  IF IndexErrorIn(items, indices)
             THEN [outcome |-> "raised", result |-> <<>>]
             ELSE [outcome |-> "returned",
                   result |-> Search(items, query, top_k, PyPositions(items, indices))]
    ELSE [outcome |-> "returned", result |-> Search(items, query, top_k, <<>>)]

\* mutant: the first min(top_k, len(agents)) agents of the catalog
AgentSearchOutcomeCatalogOrder(items, index, query, top_k) ==
    [outcome |-> "returned",
     result |-> [i \in 1..Min(top_k, Len(items)) |-> items[i].name]]

\* AgentIndexer.search: the names of the min(top_k, len(agents)) nearest agents
AgentSearchOutcome(items, index, query, top_k) ==
    LET indices == VectorSearch(index, get_embedding(query), Min(top_k, Len(items)))
    IN  IF IndexErrorIn(items, indices)
        THEN [outcome |-> "raised", result |-> <<>>]
        ELSE [outcome |-> "returned",
              result |-> [i \in 1..Len(indices) |->
                             items[PyPositions(items, indices)[i]].name]]

SearchOutcome(cls, items, index, query, top_k) ==
    IF cls = "tool" THEN ToolSearchOutcome(items, index, query, top_k)
    ELSE AgentSearchOutcome(items, index, query, top_k)

\* The item lists an indexer is constructed over: the tools server A declares
\* from one start to the next, and the agents of agents_cache (an agent has no
\* callable, its function is 0)
ToolLists ==
    { <<ToolPool[1], ToolPool[2]>>,
      <<MkTool(ToolPool[1].name, ToolPool[1].description, 5), ToolPool[2]>>,
      <<ToolPool[2], ToolPool[1]>>,
      <<ToolPool[1]>>,
      <<MkTool(ToolPool[1].name, <<"a">>, 1), ToolPool[2]>> }

AgentLists ==
    { <<MkTool(<<"a">>, <<"a", " ", "B">>, 0), MkTool(<<"z">>, <<"z">>, 0)>>,
      <<MkTool(<<"z">>, <<"z">>, 0), MkTool(<<"a">>, <<"a", " ", "B">>, 0)>>,
      <<MkTool(<<"a">>, <<"a", " ", "B">>, 0), MkTool(<<"z">>, <<"z">>, 0),
        MkTool(<<"B">>, <<"B">>, 0)>> }

ItemLists(cls) == IF cls = "tool" THEN ToolLists ELSE AgentLists

CacheQueries == {<<"a">>, <<"z">>}

NoCons ==
    [pc |-> "idle", cls |-> "none", coll |-> "none", items |-> <<>>, index |-> <<>>,
     embedCalls |-> 0, hit |-> FALSE, before |-> NoFiles]

NoSearch ==
    [n |-> 0, query |-> <<>>, top_k |-> 0, outcome |-> "idle", result |-> <<>>,
     embedCalls |-> 0, repeated |-> FALSE]

NeverSaved == [intact |-> FALSE, items |-> <<>>, index |-> <<>>]

\* an empty cache directory and no indexer
CacheEmpty ==
    /\ disk = [c \in Collections |-> NoFiles]
    /\ cons = NoCons
    /\ srch = NoSearch
    /\ nCons = 0
    /\ saved = [c \in Collections |-> NeverSaved]

\* FAISSToolIndexer(server_name, tools) / AgentIndexer(agents_info) up to the
\* decision between the cache and a rebuild. _load_or_build reads the index
\* file before it compares the fingerprints; AgentIndexer reads it on a hit.
Construct(cls, items) ==
    /\ mode = "cache"
    /\ cons.pc \in {"idle", "ready", "failed"}
    /\ nCons < MaxConstructions
    /\ LET coll == CollectionOf(cls)
           files == disk[coll]
           \* if not tools: return
           empty == cls = "tool" /\ items = <<>>
           hit == ~empty /\ CacheHit(files, Fingerprint(items))
           loaded == IF empty THEN <<>>
                     ELSE IF cls = "tool"
                     THEN (IF files.index.exists /\ files.meta.exists
                           THEN ReadIndex(files.index) ELSE <<>>)
                     ELSE (IF hit THEN ReadIndex(files.index) ELSE <<>>)
       IN  cons' = [pc |-> IF hit \/ empty THEN "ready" ELSE "building",
                    cls |-> cls, coll |-> coll, items |-> items, index |-> loaded,
                    embedCalls |-> 0, hit |-> hit, before |-> files]
    /\ srch' = NoSearch
    /\ nCons' = nCons + 1
    /\ UNCHANGED <<disk, saved>>

\* the rebuild embeds every item and builds the index
BuildCompletes ==
    /\ mode = "cache"
    /\ cons.pc = "building"
    /\ cons' = [cons EXCEPT !.pc = "saving", !.index = BuildIndex(cons.items),
                            !.embedCalls = Len(cons.items)]
    /\ UNCHANGED <<disk, srch, nCons, saved>>

\* the i-th get_embedding call of the rebuild raises: the constructor raises
BuildFails(i) ==
    /\ mode = "cache"
    /\ cons.pc = "building"
    /\ i \in 1..Len(cons.items)
    /\ cons' = [cons EXCEPT !.pc = "failed", !.embedCalls = i]
    /\ UNCHANGED <<disk, srch, nCons, saved>>

\* faiss.write_index(self.index, str(index_path))
WriteIndexFile ==
    /\ mode = "cache"
    /\ cons.pc = "saving"
    /\ disk' = [disk EXCEPT ![cons.coll].index = FileOf(cons.index)]
    /\ cons' = [cons EXCEPT !.pc = "saving_meta"]
    /\ saved' = [saved EXCEPT ![cons.coll].intact = FALSE]
    /\ UNCHANGED <<srch, nCons>>

\* with open(metadata_path, 'wb') as f: pickle.dump(data, f)
WriteMetadataFile ==
    /\ mode = "cache"
    /\ cons.pc = "saving_meta"
    /\ disk' = [disk EXCEPT ![cons.coll].meta = FileOf(Fingerprint(cons.items))]
    /\ cons' = [cons EXCEPT !.pc = "ready"]
    /\ saved' = [saved EXCEPT ![cons.coll] =
                    [intact |-> TRUE, items |-> cons.items, index |-> cons.index]]
    /\ UNCHANGED <<srch, nCons>>

\* a write raises (or the process dies): before the index file is written,
\* or after it and before the fingerprint file is
SaveFails ==
    /\ mode = "cache"
    /\ cons.pc \in {"saving", "saving_meta"}
    /\ cons' = [cons EXCEPT !.pc = "failed"]
    /\ UNCHANGED <<disk, srch, nCons, saved>>

\* what a search() call leaves in srch
Searched(query, top_k, out, calls) ==
    [n |-> srch.n + 1, query |-> query, top_k |-> top_k,
     outcome |-> out.outcome, result |-> out.result, embedCalls |-> calls,
     repeated |-> /\ srch.outcome = "returned"
                  /\ srch.query = query /\ srch.top_k = top_k]

\* mutant: search sorts self.tools in place by keyword score
ToolIndexerSearchSorts(query, top_k, embedOk) ==
    /\ mode = "cache"
    /\ cons.pc = "ready" /\ cons.cls = "tool"
    /\ srch.n < MaxSearches
    /\ embedOk
    /\ srch' = Searched(query, top_k,
                        ToolSearchOutcome(cons.items, cons.index, query, top_k),
                        IF NeedsSemantic(cons.items, query, top_k) THEN 1 ELSE 0)
    /\ cons' = [cons EXCEPT !.items =
                   SortedByScoreDesc(cons.items, Split(Lower(query)))]
    /\ UNCHANGED <<disk, nCons, saved>>

\* search(query, top_k) on the constructed FAISSToolIndexer; embedOk: the
\* embedding call for the query, if one is made, answers
ToolIndexerSearch(query, top_k, embedOk) ==
    /\ mode = "cache"
    /\ cons.pc = "ready" /\ cons.cls = "tool"
    /\ srch.n < MaxSearches
    /\ embedOk \/ NeedsSemantic(cons.items, query, top_k)
    /\ srch' = Searched(query, top_k,
                        IF embedOk
                        THEN ToolSearchOutcome(cons.items, cons.index, query, top_k)
                        ELSE [outcome |-> "raised", result |-> <<>>],
                        IF NeedsSemantic(cons.items, query, top_k) THEN 1 ELSE 0)
    /\ UNCHANGED <<disk, cons, nCons, saved>>

\* AgentIndexer.search(query, top_k) on the constructed AgentIndexer; the query
\* is always embedded (embedOk: the embedding call answers)
AgentIndexerSearch(query, top_k, embedOk) ==
    /\ mode = "cache"
    /\ cons.pc = "ready" /\ cons.cls = "agent"
    /\ srch.n < MaxSearches
    /\ srch' = Searched(query, top_k,
                        IF embedOk
                        THEN AgentSearchOutcome(cons.items, cons.index, query, top_k)
                        ELSE [outcome |-> "embedding raised", result |-> <<>>],
                        1)
    /\ UNCHANGED <<disk, cons, nCons, saved>>

(***************************************************************************)
(* Specification of the request pipeline                                   *)
(***************************************************************************)
\* MultiMCPAgentWithFiltering.initialize over the startup config
A1Init ==
    /\ mcp_connections = InitialServers
    /\ planning_servers = InitialServers
    /\ Connected(InitialServers)
    /\ server_tools = [n \in InitialServers |-> ProviderTools(n)]
    /\ tool_indexers = [n \in {m \in InitialServers : ProviderTools(m) # <<>>} |->
                           ProviderTools(n)]
    /\ MCP_SERVERS = InitialServers
    /\ threads = EmptyMap
    /\ req = [r \in Slots |-> IdleReq]
    /\ regop = NoRegOp
    /\ nextThread = 1
    /\ nReq = 0
    /\ nRegOps = 0
    /\ last = [sid \in SessionIds |-> Fresh]

IxIdle ==
    /\ ix_tools = <<>>
    /\ ix_call = NoCall
    /\ ix_result = <<>>
    /\ ix_outcome = "idle"
    /\ ix_embedCalls = 0

\* APIHandlers after the lifespan startup
A2Init ==
    /\ agents_cache = InitialAgents
    /\ mcp_servers = InitialMcpServers
    /\ a2_threads = EmptyMap
    /\ a2_req = [r \in Slots |-> A2IdleReq]
    /\ a2_nextThread = 1
    /\ a2_nReq = 0
    /\ a2_last = [sid \in SessionIds |-> Fresh]
    /\ db_agents = InitialDbAgents
    /\ a2_call = NoCall2

\* the repository holds two applications; a behaviour runs one of them
Init ==
    /\ mode \in {"approach1", "approach2"}
    /\ A1Init
    /\ A2Init
    /\ IxIdle
    /\ CacheEmpty

\* the request actions, for requests in `slots` drawing their inputs from
\* `sids` and `responses`
A1Begin(slots, sids) ==
    /\ mode = "approach1"
    /\ nReq < MaxRequests
    /\ \E r \in slots :
        \/ \E sid \in sids : A1Start(r, "service", sid, NoThread)
        \/ \E t \in 0..(nextThread - 1) : A1Start(r, "run", None, t)

A1BeginService(slots, sids, max) ==
    /\ mode = "approach1"
    /\ nReq < max
    /\ \E r \in slots, sid \in sids : A1Start(r, "service", sid, NoThread)

A1Planned(slots, responses) ==
    /\ mode = "approach1"
    /\ \E r \in slots :
        /\ req[r].pc = "planning"
        /\ \E resp \in responses, rk \in RankingChoices, embedOk \in BOOLEAN :
              A1PlanReturn(r, resp, rk, embedOk)

A1Executed(slots) ==
    /\ mode = "approach1"
    /\ \E r \in slots :
        \/ A1ExecReturn(r)
        \/ \E e \in ExecErrors : A1ExecRaise(r, e)

A1Clear(sids) == \E sid \in sids \ {None} : A1ClearSession(sid)

A1Registry ==
    /\ mode = "approach1"
    /\ \/ \E name \in ServerNames, configOk \in BOOLEAN : AddServerBegin(name, configOk)
       \/ \E indexOk \in BOOLEAN : AddServerConnected(indexOk)
       \/ AddServerConnectFails
       \/ \E name \in ServerNames : RemoveServerBegin(name)
       \/ RemoveServerClosed

OneShortlist == {CHOOSE q \in AgentShortlists : TRUE}

A2Begin(slots, sids, queries, shortlists, embeds, max) ==
    /\ mode = "approach2"
    /\ a2_nReq < max
    /\ \E r \in slots, query \in queries, sid \in sids,
          shortlist \in shortlists, embedOk \in embeds :
        /\ (query = BlankQuery \/ ~embedOk) => shortlist \in OneShortlist
        /\ A2Start(r, query, sid, shortlist, embedOk)

A2Planned(slots, responses) ==
    /\ mode = "approach2"
    /\ \E r \in slots :
        /\ a2_req[r].pc \in {"planning", "connecting"}
        /\ \E rk \in Rankings(2, 2) :
            \/ \E resp \in responses : A2PlanReturn(r, resp, rk)
            \/ \E ok \in BOOLEAN : A2Connected(r, ok, rk)

A2Executed(slots) ==
    /\ mode = "approach2"
    /\ \E r \in slots :
        /\ a2_req[r].pc = "executing"
        /\ \E closeOk \in BOOLEAN, wf \in Workflows(a2_req[r].thread) :
              A2ExecReturn(r, wf, closeOk)

A2Clear(sids) == \E sid \in sids \ {None} : A2ClearSession(sid)

\* Requests one after the other, every plan, the registry changing under them
Next ==
    \/ A1Begin({1}, {None, "", "s1"}) /\ UNCHANGED <<ixVars, cVars, rVars, mode, a2Vars>>
    \/ A1Planned({1}, Responses) /\ UNCHANGED <<ixVars, cVars, rVars, mode, a2Vars>>
    \/ A1Executed({1}) /\ UNCHANGED <<ixVars, cVars, rVars, mode, a2Vars>>
    \/ A1Clear({"s1"}) /\ UNCHANGED <<ixVars, cVars, rVars, mode, a2Vars>>
    \/ A1Registry /\ UNCHANGED <<ixVars, cVars, planning_servers, ops, nOps, initialized,
                                  mode, a2Vars>>
    \/ A2Begin({1}, {None, "", "s1"}, {QueryText, BlankQuery}, AgentShortlists, BOOLEAN,
               MaxRequests)
          /\ UNCHANGED <<ixVars, cVars, rVars, mode, a1Vars>>
    \/ A2Planned({1}, A2Responses) /\ UNCHANGED <<ixVars, cVars, rVars, mode, a1Vars>>
    \/ A2Executed({1}) /\ UNCHANGED <<ixVars, cVars, rVars, mode, a1Vars>>
    \/ A2Clear({"s1"}) /\ UNCHANGED <<ixVars, cVars, rVars, mode, a1Vars>>

Spec == Init /\ [][Next]_vars

\* Requests of the same sessions overlapping, with clears between them
SessionResponses == {<<Doc(MkPlan(<<"A">>, [sv \in {"A"} |-> SubQuery]))>>}
A2SessionResponses == {<<Doc(MkPlan2(<<"x">>, EmptyMap))>>}

NextSessions ==
    \/ A1BeginService(Slots, {"", "s1"}, MaxSessionRequests) /\ UNCHANGED <<ixVars, cVars, rVars, mode, a2Vars>>
    \/ A1Planned(Slots, SessionResponses) /\ UNCHANGED <<ixVars, cVars, rVars, mode, a2Vars>>
    \/ A1Executed(Slots) /\ UNCHANGED <<ixVars, cVars, rVars, mode, a2Vars>>
    \/ A1Clear({"s1"}) /\ UNCHANGED <<ixVars, cVars, rVars, mode, a2Vars>>
    \/ A2Begin(Slots, {"", "s1"}, {QueryText}, OneShortlist, {TRUE}, MaxSessionRequests)
          /\ UNCHANGED <<ixVars, cVars, rVars, mode, a1Vars>>
    \/ A2Planned(Slots, A2SessionResponses) /\ UNCHANGED <<ixVars, cVars, rVars, mode, a1Vars>>
    \/ A2Executed(Slots) /\ UNCHANGED <<ixVars, cVars, rVars, mode, a1Vars>>
    \/ A2Clear({"s1"}) /\ UNCHANGED <<ixVars, cVars, rVars, mode, a1Vars>>

SpecSessions == Init /\ [][NextSessions]_vars

\* one indexer and its search() calls, nothing else running
SearchInit ==
    /\ mode = "search"
    /\ IxInit
    /\ A1Init
    /\ A2Init
    /\ CacheEmpty

SpecSearch == SearchInit /\ [][IxNext]_vars

\* Two servers owning one tool each, and plans whose sub-queries match the
\* tools or not
ScenarioTools(name) == IF name = "A" THEN <<ToolPool[2]>> ELSE <<ToolPool[3]>>
ScenarioServers == {"A", "B"}
NoMatchQuery == <<"z">>

ScenarioPlans ==
    { MkPlan(<<"A", "B">>, [x \in {"A", "B"} |-> NoMatchQuery]),
      MkPlan(<<"B", "A">>, [x \in {"A", "B"} |-> NoMatchQuery]),
      MkPlan(<<"A", "B">>, EmptyMap),
      MkPlan(<<"A", "B">>, [x \in {"A", "B"} |-> IF x = "A" THEN NoMatchQuery ELSE SubQuery]),
      MkPlan(<<"A">>, [x \in {"A"} |-> NoMatchQuery]) }

ScenarioResponses == {<<Doc(d)>> : d \in ScenarioPlans}

ScenarioInit ==
    /\ mode = "approach1"
    /\ mcp_connections = ScenarioServers
    /\ planning_servers = ScenarioServers
    /\ Connected(ScenarioServers)
    /\ server_tools = [n \in ScenarioServers |-> ScenarioTools(n)]
    /\ tool_indexers = [n \in ScenarioServers |-> ScenarioTools(n)]
    /\ MCP_SERVERS = ScenarioServers
    /\ threads = EmptyMap
    /\ req = [r \in Slots |-> IdleReq]
    /\ regop = NoRegOp
    /\ nextThread = 1
    /\ nReq = 0
    /\ nRegOps = 0
    /\ last = [sid \in SessionIds |-> Fresh]
    /\ A2Init
    /\ IxIdle
    /\ CacheEmpty

NextScenario ==
    \/ A1Begin({1}, {None, "s1"}) /\ UNCHANGED <<ixVars, cVars, rVars, mode, a2Vars>>
    \/ A1Planned({1}, ScenarioResponses) /\ UNCHANGED <<ixVars, cVars, rVars, mode, a2Vars>>
    \/ A1Executed({1}) /\ UNCHANGED <<ixVars, cVars, rVars, mode, a2Vars>>
    \/ A1Clear({"s1"}) /\ UNCHANGED <<ixVars, cVars, rVars, mode, a2Vars>>

SpecScenario == ScenarioInit /\ [][NextScenario]_vars

\* the cache directory over successive starts of the program
CacheInit ==
    /\ mode = "cache"
    /\ A1Init
    /\ A2Init
    /\ IxIdle
    /\ CacheEmpty

NextCache ==
    \/ (\E cls \in {"tool", "agent"} : \E items \in ItemLists(cls) : Construct(cls, items))
          /\ UNCHANGED <<ixVars, mode, a1Vars, a2Vars, rVars>>
    \/ BuildCompletes /\ UNCHANGED <<ixVars, mode, a1Vars, a2Vars, rVars>>
    \/ (\E i \in 1..MaxTools : BuildFails(i)) /\ UNCHANGED <<ixVars, mode, a1Vars, a2Vars, rVars>>
    \/ WriteIndexFile /\ UNCHANGED <<ixVars, mode, a1Vars, a2Vars, rVars>>
    \/ WriteMetadataFile /\ UNCHANGED <<ixVars, mode, a1Vars, a2Vars, rVars>>
    \/ SaveFails /\ UNCHANGED <<ixVars, mode, a1Vars, a2Vars, rVars>>
    \/ (\E q \in CacheQueries : \E k \in 1..MaxTopK : \E ok \in BOOLEAN :
            ToolIndexerSearch(q, k, ok))
          /\ UNCHANGED <<ixVars, mode, a1Vars, a2Vars, rVars>>

SpecCache == CacheInit /\ [][NextCache]_vars

\* FAISSToolIndexer as a class: constructed over the tools of a server that
\* declares some at one start and none at another
IndexerLists == {<<ToolPool[1], ToolPool[2]>>, <<ToolPool[2]>>, <<>>}

NextIndexer ==
    \/ (\E items \in IndexerLists : Construct("tool", items))
          /\ UNCHANGED <<ixVars, mode, a1Vars, a2Vars, rVars>>
    \/ BuildCompletes /\ UNCHANGED <<ixVars, mode, a1Vars, a2Vars, rVars>>
    \/ (\E i \in 1..MaxTools : BuildFails(i)) /\ UNCHANGED <<ixVars, mode, a1Vars, a2Vars, rVars>>
    \/ WriteIndexFile /\ UNCHANGED <<ixVars, mode, a1Vars, a2Vars, rVars>>
    \/ WriteMetadataFile /\ UNCHANGED <<ixVars, mode, a1Vars, a2Vars, rVars>>
    \/ SaveFails /\ UNCHANGED <<ixVars, mode, a1Vars, a2Vars, rVars>>
    \/ (\E q \in CacheQueries : \E k \in 1..MaxTopK : \E ok \in BOOLEAN :
            ToolIndexerSearch(q, k, ok))
          /\ UNCHANGED <<ixVars, mode, a1Vars, a2Vars, rVars>>

SpecIndexer == CacheInit /\ [][NextIndexer]_vars

\* overlapping registry calls on a running service, until its shutdown
RegistryNames == {"A", "B"}

RegistryInit ==
    /\ mode = "registry"
    /\ A1Init
    /\ A2Init
    /\ IxIdle
    /\ CacheEmpty

RegistryFrame ==
    UNCHANGED <<ixVars, mode, a2Vars, cVars, planning_servers, threads, req, regop,
                nextThread, nReq, nRegOps, last>>

NextRegistry ==
    \/ (\E c \in Slots, name \in RegistryNames : CallAddServer(c, name)) /\ RegistryFrame
    \/ (\E c \in Slots, indexOk \in BOOLEAN : AddConnected(c, indexOk)) /\ RegistryFrame
    \/ (\E c \in Slots : AddConnectFails(c)) /\ RegistryFrame
    \/ (\E c \in Slots, name \in RegistryNames : CallRemoveServer(c, name)) /\ RegistryFrame
    \/ (\E c \in Slots, closed \in BOOLEAN : RemoveClosed(c, closed)) /\ RegistryFrame
    \/ (\E stays \in SUBSET ServerNames : Shutdown(stays)) /\ RegistryFrame

SpecRegistry == RegistryInit /\ [][NextRegistry]_vars

\* Two sessions, queries without a session, restores and registry calls
StoreSessions == {"s1", "s2"}

\* add_server and remove_server of the server the session plans do not name
StoreRegistry ==
    /\ mode = "approach1"
    /\ \/ \E configOk \in BOOLEAN : AddServerBegin("B", configOk)
       \/ \E indexOk \in BOOLEAN : AddServerConnected(indexOk)
       \/ AddServerConnectFails
       \/ RemoveServerBegin("B")
       \/ RemoveServerClosed

NextStore ==
    \/ A1BeginService({1}, {None} \cup StoreSessions, MaxRequests)
          /\ UNCHANGED <<ixVars, cVars, rVars, mode, a2Vars>>
    \/ A1Planned({1}, SessionResponses) /\ UNCHANGED <<ixVars, cVars, rVars, mode, a2Vars>>
    \/ A1Executed({1}) /\ UNCHANGED <<ixVars, cVars, rVars, mode, a2Vars>>
    \/ A1Clear(StoreSessions) /\ UNCHANGED <<ixVars, cVars, rVars, mode, a2Vars>>
    \/ (\E sid \in StoreSessions : A1DeserializeThread(sid))
          /\ UNCHANGED <<ixVars, cVars, rVars, mode, a2Vars>>
    \/ StoreRegistry /\ UNCHANGED <<ixVars, cVars, planning_servers, ops, nOps, initialized,
                                     mode, a2Vars>>
    \/ A2Begin({1}, {None} \cup StoreSessions, {QueryText}, OneShortlist, {TRUE}, MaxRequests)
          /\ UNCHANGED <<ixVars, cVars, rVars, mode, a1Vars>>
    \/ A2Planned({1}, A2SessionResponses) /\ UNCHANGED <<ixVars, cVars, rVars, mode, a1Vars>>
    \/ A2Executed({1}) /\ UNCHANGED <<ixVars, cVars, rVars, mode, a1Vars>>
    \/ A2Clear(StoreSessions) /\ UNCHANGED <<ixVars, cVars, rVars, mode, a1Vars>>

SpecStore == Init /\ [][NextStore]_vars

\* Two requests side by side: a plan with tools, a plan of a server without
\* tools, and a response that is not JSON
OutcomeResponses ==
    { <<Doc(MkPlan(<<"A">>, EmptyMap))>>, <<Doc(MkPlan(<<"C">>, EmptyMap))>>, <<NotJson>> }
A2OutcomeResponses == { <<Doc(MkPlan2(<<"x">>, EmptyMap))>>, <<NotJson>> }

NextOutcomes ==
    \/ A1Begin(Slots, {None}) /\ UNCHANGED <<ixVars, cVars, rVars, mode, a2Vars>>
    \/ A1Planned(Slots, OutcomeResponses) /\ UNCHANGED <<ixVars, cVars, rVars, mode, a2Vars>>
    \/ A1Executed(Slots) /\ UNCHANGED <<ixVars, cVars, rVars, mode, a2Vars>>
    \/ A2Begin(Slots, {None}, {QueryText}, OneShortlist, {TRUE}, MaxRequests)
          /\ UNCHANGED <<ixVars, cVars, rVars, mode, a1Vars>>
    \/ A2Planned(Slots, A2OutcomeResponses) /\ UNCHANGED <<ixVars, cVars, rVars, mode, a1Vars>>
    \/ A2Executed(Slots) /\ UNCHANGED <<ixVars, cVars, rVars, mode, a1Vars>>

SpecOutcomes == Init /\ [][NextOutcomes]_vars

\* AgentIndexer as execute_query uses it: constructed over agents_cache from
\* one request (and one process) to the next, then searched
NextAgentIndex ==
    \/ (\E items \in AgentLists : Construct("agent", items))
          /\ UNCHANGED <<ixVars, mode, a1Vars, a2Vars, rVars>>
    \/ BuildCompletes /\ UNCHANGED <<ixVars, mode, a1Vars, a2Vars, rVars>>
    \/ (\E i \in 1..MaxTools : BuildFails(i)) /\ UNCHANGED <<ixVars, mode, a1Vars, a2Vars, rVars>>
    \/ WriteIndexFile /\ UNCHANGED <<ixVars, mode, a1Vars, a2Vars, rVars>>
    \/ WriteMetadataFile /\ UNCHANGED <<ixVars, mode, a1Vars, a2Vars, rVars>>
    \/ SaveFails /\ UNCHANGED <<ixVars, mode, a1Vars, a2Vars, rVars>>
    \/ (\E q \in CacheQueries : \E k \in 1..MaxTopK : \E ok \in BOOLEAN :
            AgentIndexerSearch(q, k, ok))
          /\ UNCHANGED <<ixVars, mode, a1Vars, a2Vars, rVars>>

SpecAgentIndex == CacheInit /\ [][NextAgentIndex]_vars

\* The JSON texts the planner may answer with, and the responses that hold one
\* of them bare or between one pair of fences
JsonTexts ==
    { <<Doc(MkPlan(<<"A">>, EmptyMap))>>,
      <<Doc(MkPlan(<<"B", "A">>, [x \in {"A"} |-> SubQuery]))>>,
      <<JsonList>>,
      FencedStringText }

Wrappings(j) ==
    { j, <<WS>> \o j \o <<WS>>,
      <<FENCE>> \o j \o <<FENCE>>,
      <<FENCE, WS>> \o j \o <<WS, FENCE>>,
      <<WS, FENCE, WS>> \o j \o <<WS, FENCE, WS>>,
      <<FENCE, TAG>> \o j \o <<FENCE>>,
      <<FENCE, TAG, WS>> \o j \o <<WS, FENCE>>,
      <<WS, FENCE, TAG, WS>> \o j \o <<WS, FENCE, WS>> }

DecodeResponses == UNION {Wrappings(j) : j \in JsonTexts}

NextDecode ==
    \/ A1Begin({1}, {None}) /\ UNCHANGED <<ixVars, cVars, rVars, mode, a2Vars>>
    \/ A1Planned({1}, DecodeResponses) /\ UNCHANGED <<ixVars, cVars, rVars, mode, a2Vars>>
    \/ A1Executed({1}) /\ UNCHANGED <<ixVars, cVars, rVars, mode, a2Vars>>

SpecDecode == Init /\ [][NextDecode]_vars

\* Queries and add_server calls only: every rejected call is an add_server
AddServerCalls ==
    /\ mode = "approach1"
    /\ \/ \E name \in ServerNames, configOk \in BOOLEAN : AddServerBegin(name, configOk)
       \/ \E indexOk \in BOOLEAN : AddServerConnected(indexOk)
       \/ AddServerConnectFails

NextAddServer ==
    \/ A1Begin({1}, {None, "s1"}) /\ UNCHANGED <<ixVars, cVars, rVars, mode, a2Vars>>
    \/ A1Planned({1}, Responses) /\ UNCHANGED <<ixVars, cVars, rVars, mode, a2Vars>>
    \/ A1Executed({1}) /\ UNCHANGED <<ixVars, cVars, rVars, mode, a2Vars>>
    \/ AddServerCalls /\ UNCHANGED <<ixVars, cVars, planning_servers, ops, nOps, initialized,
                                      mode, a2Vars>>

SpecAddServer == Init /\ [][NextAddServer]_vars

\* AgentService as constructed: no agent, not initialized, the startup config
Constructed ==
    /\ mode = "approach1"
    /\ mcp_connections = {}
    /\ planning_servers = {}
    /\ conns = <<>>
    /\ registered = EmptyMap
    /\ ops = [c \in Slots |-> NoOp]
    /\ nOps = 0
    /\ initialized = FALSE
    /\ server_tools = EmptyMap
    /\ tool_indexers = EmptyMap
    /\ MCP_SERVERS = InitialServers
    /\ threads = EmptyMap
    /\ req = [r \in Slots |-> IdleReq]
    /\ regop = NoRegOp
    /\ nextThread = 1
    /\ nReq = 0
    /\ nRegOps = 0
    /\ last = [sid \in SessionIds |-> Fresh]
    /\ A2Init
    /\ IxIdle
    /\ CacheEmpty

LifespanRegistry ==
    /\ mode = "approach1"
    /\ \/ \E configOk \in BOOLEAN : AddServerBegin("B", configOk)
       \/ \E indexOk \in BOOLEAN : AddServerConnected(indexOk)
       \/ AddServerConnectFails
       \/ \E name \in {"A", "B"} : RemoveServerBegin(name)
       \/ RemoveServerClosed
       \/ ListServers

LifespanRegistryFrame ==
    UNCHANGED <<ixVars, cVars, planning_servers, ops, nOps, initialized, mode, a2Vars>>

LifespanCallFrame == UNCHANGED <<ixVars, cVars, mode, a2Vars>>

\* app.py lifespan: shutdown() runs after the server has stopped serving, so
\* no handler is in flight when it starts and none starts while it runs
NoShutdownRunning == ops[2].op = "none"
NoHandlerRunning == regop.op = "none" /\ \A r \in Slots : req[r].pc \in {"idle", "done"}

NextLifespan ==
    \/ A1BeginService({1}, {None, "s1"}, MaxRequests) /\ NoShutdownRunning
          /\ UNCHANGED <<ixVars, cVars, rVars, mode, a2Vars>>
    \/ A1Planned({1}, SessionResponses) /\ UNCHANGED <<ixVars, cVars, rVars, mode, a2Vars>>
    \/ A1Executed({1}) /\ UNCHANGED <<ixVars, cVars, rVars, mode, a2Vars>>
    \/ LifespanRegistry /\ NoShutdownRunning /\ LifespanRegistryFrame
    \/ ServiceInitialize /\ NoShutdownRunning /\ LifespanCallFrame
    \/ (\E ok \in BOOLEAN : ServiceInitialized(ok)) /\ LifespanCallFrame
    \/ ServiceShutdown /\ NoHandlerRunning /\ LifespanCallFrame
    \/ (\E stays \in SUBSET ServerNames : ServiceDisconnected(stays)) /\ LifespanCallFrame
    \/ ServiceShutdownCompletes /\ LifespanCallFrame

SpecLifespan == Constructed /\ [][NextLifespan]_vars

\* approach2 with its agents and MCP servers added, listed and deleted
\* between the queries
AgentsInit ==
    /\ mode = "approach2"
    /\ A1Init
    /\ A2Init
    /\ IxIdle
    /\ CacheEmpty

McpServerNames == {"A", "S"}
NewAgentNames == {"v", "x"}
NewAgentInfos == {AgentInfo(TRUE, "A"), AgentInfo(TRUE, "S"), AgentInfo(FALSE, None)}
AgentNames == DOMAIN CodeAgents \cup DOMAIN InitialDbAgents \cup NewAgentNames

AgentsFrame == UNCHANGED <<ixVars, cVars, rVars, mode, a1Vars>>

NextRegistration ==
    \/ (\E name \in McpServerNames : AddMcpServer(name)) /\ AgentsFrame
    \/ (\E name \in McpServerNames : DeleteMcpServer(name)) /\ AgentsFrame
    \/ (\E name \in NewAgentNames, info \in NewAgentInfos, dbUp \in BOOLEAN :
            AddAgent(name, info, dbUp)) /\ AgentsFrame
    \/ (\E name \in AgentNames, dbUp \in BOOLEAN : DeleteAgent(name, dbUp)) /\ AgentsFrame

SpecRegistration == AgentsInit /\ [][NextRegistration]_vars

\* the agents added, listed and deleted between the queries
NextAgents ==
    \/ (\E dbUp \in BOOLEAN : AddAgent("x", AgentInfo(FALSE, None), dbUp)) /\ AgentsFrame
    \/ (\E dbUp \in BOOLEAN : ListAgents(dbUp)) /\ AgentsFrame
    \/ (\E name \in {"x", "y"}, dbUp \in BOOLEAN : DeleteAgent(name, dbUp)) /\ AgentsFrame
    \/ A2Begin({1}, {None}, {QueryText}, OneShortlist, {TRUE}, MaxRequests) /\ AgentsFrame
    \/ A2Planned({1}, A2SessionResponses) /\ AgentsFrame
    \/ A2Executed({1}) /\ AgentsFrame

SpecAgents == AgentsInit /\ [][NextAgents]_vars

(***************************************************************************)
(* C1: search returns at most top_k tools, each one an element of the      *)
(* indexer's own tool list (never a tool of another server).               *)
(***************************************************************************)
C1_SearchBoundedAndOwn ==
    ix_outcome = "returned" =>
        /\ Len(ix_result) <= ix_call.top_k
        /\ \A i \in 1..Len(ix_result) : InSeq(ix_result[i], ix_tools)

\* a search that merged semantic neighbours and filled all top_k places
\* from a catalog larger than top_k
C1_Witness ==
    /\ ix_outcome = "returned"
    /\ ix_call.ranking # <<>>
    /\ Len(ix_result) = ix_call.top_k
    /\ Len(ix_tools) > ix_call.top_k
    /\ ix_call.top_k >= 2

(***************************************************************************)
(* Claims about the request pipeline                                       *)
(***************************************************************************)
\* what threads.get(sid) answers
Entry(store, sid) == IF sid \in DOMAIN store THEN store[sid] ELSE NoThread

\* the request in slot r has begun executing (or is past it)
A1Invoked(r) == req[r].nExec >= 1
A2Invoked(r) == a2_req[r].nExec >= 1

\* C2: when the planned targets own no tool at all (the tool list is still
\* empty after the fallback step), the request ends with the neutral "no tools"
\* outcome and execute is never invoked, in process_query as well as in run.
C2_NoToolsNeverExecutes ==
    \A r \in Slots :
        (req[r].fallback /\ req[r].plan.servers # <<>> /\ req[r].tools = <<>>)
            => (req[r].nExec = 0 /\ req[r].reply.kind = "no_tools")

\* C3 as stated: the next query of a session, with no clear and no other query
\* of the session in between, executes with the thread the previous execution
\* produced, for every session_id.
C3_ContinuityEverySessionId ==
    /\ \A r \in Slots :
          (A1Invoked(r) /\ ~req[r].disturbed /\ req[r].pre.ev = "produced"
             /\ req[r].pre.thread # NoThread)
              => req[r].execThread = req[r].pre.thread
    /\ \A r \in Slots :
          (A2Invoked(r) /\ ~a2_req[r].disturbed /\ a2_req[r].pre.ev = "produced"
             /\ a2_req[r].pre.thread # NoThread)
              => a2_req[r].execThread = a2_req[r].pre.thread

\* C3 amended: the same, for every non-empty session_id.
C3_Continuity ==
    /\ \A r \in Slots :
          (A1Invoked(r) /\ ~req[r].disturbed /\ req[r].pre.ev = "produced"
             /\ req[r].pre.thread # NoThread /\ Truthy(req[r].sid))
              => req[r].execThread = req[r].pre.thread
    /\ \A r \in Slots :
          (A2Invoked(r) /\ ~a2_req[r].disturbed /\ a2_req[r].pre.ev = "produced"
             /\ a2_req[r].pre.thread # NoThread /\ Truthy(a2_req[r].sid))
              => a2_req[r].execThread = a2_req[r].pre.thread

C3_Witness ==
    \E r \in Slots :
        /\ A1Invoked(r) /\ ~req[r].disturbed /\ req[r].sid = "s1"
        /\ req[r].pre.ev = "produced"
        /\ req[r].execThread = req[r].pre.thread
        /\ req[r].execThread # NoThread

\* C4: with no other request of the session in flight, the first query after
\* clear_session(s) executes with thread = null, whatever was stored before.
C4_ClearedSessionStartsFresh ==
    /\ \A r \in Slots :
          (A1Invoked(r) /\ ~req[r].disturbed /\ req[r].pre.ev = "cleared")
              => req[r].execThread = NoThread
    /\ \A r \in Slots :
          (A2Invoked(r) /\ ~a2_req[r].disturbed /\ a2_req[r].pre.ev = "cleared")
              => a2_req[r].execThread = NoThread

C4_Witness ==
    \E r \in Slots :
        /\ A2Invoked(r) /\ ~a2_req[r].disturbed
        /\ a2_req[r].pre.ev = "cleared" /\ a2_req[r].pre.thread # NoThread
        /\ a2_req[r].execThread = NoThread

\* the step in which the execution of request r returns
A1Returns(r) ==
    req[r].pc = "executing" /\ req'[r].pc = "done" /\ req'[r].reply.kind = "ok"
A2Returns(r) == a2_req[r].pc = "executing" /\ a2_req'[r].pc = "done"

\* C5 as stated: when the execution of a request that carried session_id s
\* returns, the store entry of s is the updated thread it returned, for every
\* supplied session_id and every returned thread.
C5_StoreHoldsAnyReturnedThread ==
    [][ /\ \A r \in Slots :
              (A1Returns(r) /\ req[r].kind = "service" /\ req[r].sid # None)
                  => Entry(threads', req[r].sid) = req[r].runThread
        /\ \A r \in Slots :
              (A2Returns(r) /\ a2_req[r].sid # None)
                  => Entry(a2_threads', a2_req[r].sid) = a2_req'[r].updated ]_vars

\* C5 amended: the same, for every non-empty session_id and every non-null
\* returned thread.
C5_StoreHoldsReturnedThread ==
    [][ /\ \A r \in Slots :
              (A1Returns(r) /\ req[r].kind = "service" /\ Truthy(req[r].sid)
                 /\ req[r].runThread # NoThread)
                  => Entry(threads', req[r].sid) = req[r].runThread
        /\ \A r \in Slots :
              (A2Returns(r) /\ Truthy(a2_req[r].sid) /\ a2_req'[r].updated # NoThread)
                  => Entry(a2_threads', a2_req[r].sid) = a2_req'[r].updated ]_vars

\* a returned thread has replaced a different thread stored before
C5_Witness ==
    \E r \in Slots :
        /\ a2_req[r].pc = "done" /\ a2_req[r].wrote /\ a2_req[r].sid = "s1"
        /\ a2_req[r].thread # NoThread
        /\ a2_req[r].updated \notin {NoThread, a2_req[r].thread}
        /\ Entry(a2_threads, "s1") = a2_req[r].updated

\* C6: an exception raised by the execution capability fails the request: the
\* caller gets an error, never a successful result, and the error carries the
\* exception's class name and message.
C6_ExecutionErrorSurfaces ==
    /\ \A r \in Slots :
          (req[r].pc = "done" /\ req[r].execExc # NoExc)
              => /\ req[r].reply.kind \in {"error", "raised"}
                 /\ InSeq(req[r].execExc.cls, req[r].reply.detail)
                 /\ InSeq(req[r].execExc.msg, req[r].reply.detail)
    /\ \A r \in Slots :
          (a2_req[r].pc = "done" /\ a2_req[r].execExc # NoExc)
              => /\ a2_req[r].reply.kind = "error"
                 /\ InSeq(a2_req[r].execExc.cls, a2_req[r].reply.detail)
                 /\ InSeq(a2_req[r].execExc.msg, a2_req[r].reply.detail)

\* C7: a plan naming a target that is not in the live registry never fails
\* the request: the target is skipped and execution is still invoked (the
\* request may still end for another reason: no tool, or a failing embedding,
\* connection or execution).
C7_UnknownTargetSkipped ==
    /\ \A r \in Slots :
          (req[r].pc = "done" /\ req[r].skipped # {})
              => \/ req[r].nExec = 1
                 \/ req[r].reply.kind = "no_tools"
    /\ \A r \in Slots :
          (a2_req[r].pc = "done" /\ a2_req[r].skipped # {})
              => \/ a2_req[r].nExec = 1
                 \/ a2_req[r].reply \in
                        {A2RouteError(Exc("ConnectionError", "mcp")),
                         A2RouteError(Exc("HTTPException", "MCP server not configured"))}

\* the planning call of the request has returned
A1PlanAnswered(r) == req[r].nPlan >= 1 /\ req[r].pc # "planning"
A2PlanAnswered(r) == a2_req[r].nPlan >= 1 /\ a2_req[r].pc # "planning"

\* C8: when the planner's response is not valid JSON after fence stripping,
\* the request aborts before filtering: it fails, no tool index is searched,
\* execution is not invoked and the session store is not written.
C8_InvalidPlanAborts ==
    /\ \A r \in Slots :
          (A1PlanAnswered(r) /\ ~JsonValid(decode_json(req[r].resp)))
              => /\ req[r].pc = "done" /\ req[r].reply.kind \in {"error", "raised"}
                 /\ req[r].nSearch = 0 /\ req[r].nExec = 0 /\ ~req[r].wrote
    /\ \A r \in Slots :
          (A2PlanAnswered(r) /\ ~JsonValid(decode_json(a2_req[r].resp)))
              => /\ a2_req[r].pc = "done" /\ a2_req[r].reply.kind = "error"
                 /\ a2_req[r].nSearch = 0 /\ a2_req[r].nExec = 0 /\ ~a2_req[r].wrote

C8_Witness ==
    \E r \in Slots :
        /\ A1PlanAnswered(r) /\ req[r].resp = <<NotJson>> /\ Truthy(req[r].sid)
        /\ req[r].reply = RouteError(Exc("JSONDecodeError", "Expecting value"))

\* C9: a request makes at most one planning call and at most one execution
\* call; a successful one made exactly one of each, the planning call having
\* returned before execution starts; nothing is retried after a failure.
C9_OnePlanOneExecution ==
    /\ \A r \in Slots :
          /\ req[r].nPlan <= 1 /\ req[r].nExec <= 1
          /\ req[r].nExec = 1 => A1PlanAnswered(r)
          /\ req[r].reply.kind = "ok" => (req[r].nPlan = 1 /\ req[r].nExec = 1)
          /\ req[r].reply.kind \in {"error", "raised"} => req[r].pc = "done"
    /\ \A r \in Slots :
          /\ a2_req[r].nPlan <= 1 /\ a2_req[r].nExec <= 1
          /\ a2_req[r].nExec = 1 => A2PlanAnswered(r)
          /\ a2_req[r].reply.kind = "ok" => (a2_req[r].nPlan = 1 /\ a2_req[r].nExec = 1)
          /\ a2_req[r].reply.kind = "error" => a2_req[r].pc = "done"

\* a request failed in execution after its one planning call
C9_Witness ==
    \E r \in Slots :
        /\ req[r].pc = "done" /\ req[r].execExc # NoExc
        /\ req[r].nPlan = 1 /\ req[r].nExec = 1

\* every tool of planned server number i, when server_tools holds the server
AllToolsOf(catalog, servers, i) ==
    IF servers[i] \in DOMAIN catalog THEN Functions(catalog[servers[i]]) ELSE <<>>

\* the tool at position k of the concatenation of AllToolsOf(.., i), i = 1, 2, ...
RECURSIVE NthTool(_, _, _, _)
NthTool(catalog, servers, i, k) ==
    IF k <= Len(AllToolsOf(catalog, servers, i))
    THEN AllToolsOf(catalog, servers, i)[k]
    ELSE NthTool(catalog, servers, i + 1, k - Len(AllToolsOf(catalog, servers, i)))

RECURSIVE TotalTools(_, _, _)
TotalTools(catalog, servers, i) ==
    IF i > Len(servers) THEN 0
    ELSE Len(AllToolsOf(catalog, servers, i)) + TotalTools(catalog, servers, i + 1)

\* C10: when filtering the planned targets leaves no tool, the list handed on
\* is every tool of every planned server of the catalog, in plan order and
\* catalog order, unfiltered.
C10_FallbackTakesEveryTool ==
    [][ \A r \in Slots :
          (req[r].pc = "planning" /\ req'[r].fallback)
              => /\ Len(req'[r].tools) = TotalTools(server_tools, req'[r].plan.servers, 1)
                 /\ \A k \in 1..Len(req'[r].tools) :
                       req'[r].tools[k] =
                           NthTool(server_tools, req'[r].plan.servers, 1, k) ]_vars

C10_Witness ==
    \E r \in Slots :
        /\ req[r].fallback /\ req[r].nExec = 1
        /\ req[r].tools # <<>>
        /\ Len(req[r].plan.servers) = 2


\* the request executes a plan of serverA then serverB, each owning one tool,
\* with sub-queries whose keywords match neither tool
FallbackScenario(rq) ==
    /\ rq.nExec >= 1
    /\ rq.plan.servers = <<"A", "B">>
    /\ \A sv \in {"A", "B"} :
          /\ sv \in DOMAIN rq.plan.tool_queries
          /\ Len(server_tools[sv]) = 1
          /\ KeywordMatches(server_tools[sv], Split(Lower(rq.plan.tool_queries[sv]))) = <<>>

\* C11 as stated: in that scenario filtering selects no tool for either
\* server, the fallback step is taken, and execution gets exactly the 2 tools.
C11_ScenarioTakesFallback ==
    \A r \in Slots :
        FallbackScenario(req[r])
            => /\ \A sv \in {"A", "B"} : req[r].selected[sv] = <<>>
               /\ req[r].fallback
               /\ req[r].tools = Functions(server_tools["A"]) \o Functions(server_tools["B"])

\* C11 amended: in that scenario the search of each server returns its one
\* tool as the nearest neighbour, the fallback step is not taken, and
\* execution gets exactly the 2 tools of serverA and serverB.
C11_ScenarioExecutesBothTools ==
    \A r \in Slots :
        FallbackScenario(req[r])
            => /\ \A sv \in {"A", "B"} : req[r].selected[sv] = Names(server_tools[sv])
               /\ ~req[r].fallback
               /\ req[r].tools = Functions(server_tools["A"]) \o Functions(server_tools["B"])

C11_Witness ==
    \E r \in Slots :
        /\ FallbackScenario(req[r])
        /\ Len(req[r].tools) = 2
        /\ req[r].nSearch = 2

\* request o of the same session completed and wrote while request r, which
\* had read the same stored thread, was still in flight
A1Overlapped(r, o) ==
    /\ r # o
    /\ req[r].kind = "service" /\ req[o].kind = "service"
    /\ Truthy(req[r].sid) /\ req[o].sid = req[r].sid
    /\ req[o].pc = "done" /\ req[o].wrote
    /\ req[r].disturbed
    /\ req[o].execThread = req[r].execThread
A2Overlapped(r, o) ==
    /\ r # o
    /\ Truthy(a2_req[r].sid) /\ a2_req[o].sid = a2_req[r].sid
    /\ a2_req[o].pc = "done" /\ a2_req[o].wrote
    /\ a2_req[r].disturbed
    /\ a2_req[o].execThread = a2_req[r].execThread

\* C12: two overlapping requests of one session are not serialised: both may
\* read the same stored thread (or both none) before either writes, and when
\* the second of them completes and writes, the store holds exactly its
\* thread; the thread the first one wrote is replaced, not merged.
C12_LastWriterWins ==
    [][ /\ \A r, o \in Slots :
              (A1Overlapped(r, o) /\ A1Returns(r))
                  => Entry(threads', req[r].sid) = req[r].runThread
        /\ \A r, o \in Slots :
              (A2Overlapped(r, o) /\ A2Returns(r) /\ a2_req'[r].wrote)
                  => Entry(a2_threads', a2_req[r].sid)
                        = ThreadToStore(a2_req'[r].updated, a2_req[r].thread) ]_vars

\* both requests found no stored thread, both wrote, and the store holds the
\* thread of the one that returned last, which is not the other one's
C12_Witness ==
    \E r, o \in Slots :
        /\ r # o
        /\ req[r].pc = "done" /\ req[o].pc = "done"
        /\ req[r].sid = "s1" /\ req[o].sid = "s1"
        /\ req[r].wrote /\ req[o].wrote
        /\ req[r].execThread = NoThread /\ req[o].execThread = NoThread
        /\ req[r].disturbed
        /\ req[r].runThread # req[o].runThread
        /\ Entry(threads, "s1") = req[r].runThread

(***************************************************************************)
(* Claims about the index cache                                            *)
(***************************************************************************)
\* the (name, description) sequence of an item list
ItemPairs(items) == [i \in 1..Len(items) |-> <<items[i].name, items[i].description>>]

\* the index a build over the items of a fingerprint produces
IndexOfFingerprint(fp) ==
    [i \in 1..Len(fp) |-> get_embedding(fp[i][1] \o <<":", " ">> \o fp[i][2])]

\* the construction took the cache files that the completed build of an equal
\* item list saved
LoadedOwnCache ==
    /\ cons.pc = "ready" /\ cons.hit
    /\ saved[cons.coll].intact
    /\ saved[cons.coll].items = cons.items

FoundCache == cons.before.index.exists /\ cons.before.meta.exists

C15_CacheHitIsFree ==
    (cons.cls = "tool" /\ FoundCache /\ cons.before.meta.data = ItemPairs(cons.items))
        => /\ cons.pc = "ready" /\ cons.hit
           /\ cons.embedCalls = 0
           /\ disk[cons.coll] = cons.before

\* a hit over tools whose callable differs from the one the cache was built with
C15_Witness ==
    /\ cons.cls = "tool" /\ cons.pc = "ready" /\ cons.hit
    /\ cons.embedCalls = 0
    /\ saved[cons.coll].intact
    /\ saved[cons.coll].items # cons.items
    /\ ItemPairs(saved[cons.coll].items) = ItemPairs(cons.items)

\* C16: outside of a save in progress, the index file of every collection
\* holds the index built from the item list its fingerprint file records,
\* whatever step of a rebuild failed before.
C16_CacheNeverPoisoned ==
    \A c \in Collections :
        (/\ disk[c].index.exists /\ disk[c].meta.exists
         /\ ~(cons.pc = "saving_meta" /\ cons.coll = c))
            => disk[c].index.data = IndexOfFingerprint(disk[c].meta.data)

CallKeywords == Split(Lower(ix_call.query))
CallScore(tool) == KeywordScore(tool, CallKeywords)

\* the catalog positions of the tools with a keyword score above 0
Matching == {i \in 1..Len(ix_tools) : CallScore(ix_tools[i]) > 0}

\* the catalog position of a tool of the catalog
PosOf(tool) == CHOOSE i \in 1..Len(ix_tools) : ix_tools[i] = tool

\* tool t ranks before tool u: higher score, or equal score and earlier in the
\* catalog
RanksBefore(t, u) ==
    \/ CallScore(t) > CallScore(u)
    \/ CallScore(t) = CallScore(u) /\ PosOf(t) < PosOf(u)

\* C17: a search for which at least top_k tools have a keyword score above 0
\* makes no embedding call and does not query the vector index; any other
\* search of a non-empty catalog makes exactly one embedding call and, when
\* that call answers, one vector search with k = min(2*top_k, number of tools).
C17_VectorIndexOnlyWhenNeeded ==
    (ix_outcome # "idle" /\ ix_tools # <<>>)
        => IF Cardinality(Matching) >= ix_call.top_k
           THEN ix_embedCalls = 0 /\ ix_call.ranking = <<>>
           ELSE /\ ix_embedCalls = 1
                /\ ix_outcome = "returned"
                      => Len(ix_call.ranking) = Min(2 * ix_call.top_k, Len(ix_tools))

\* a search answered from keyword matches over a catalog with more tools than
\* matches
C17_Witness ==
    /\ ix_outcome = "returned"
    /\ ix_call.top_k = 2 /\ Cardinality(Matching) = 2 /\ Len(ix_tools) = 3
    /\ ix_embedCalls = 0
    /\ Len(ix_result) = 2

\* C18: when at least top_k tools have a keyword score above 0, search returns
\* top_k of them, ordered by descending score with equal scores in catalog
\* order, and every match left out ranks after the last one returned.
C18_KeywordPathOrder ==
    (ix_outcome = "returned" /\ ix_tools # <<>> /\ Cardinality(Matching) >= ix_call.top_k)
        => /\ Len(ix_result) = ix_call.top_k
           /\ \A i \in 1..Len(ix_result) :
                 InSeq(ix_result[i], ix_tools) /\ CallScore(ix_result[i]) > 0
           /\ \A i, j \in 1..Len(ix_result) :
                 i < j => RanksBefore(ix_result[i], ix_result[j])
           /\ \A p \in Matching :
                 ~InSeq(ix_tools[p], ix_result) /\ ix_result # <<>>
                    => RanksBefore(ix_result[Len(ix_result)], ix_tools[p])

\* three matches for top_k = 2: the two returned tie and follow the catalog
\* order, the first tool of the catalog scores less and is left out
C18_Witness ==
    /\ ix_outcome = "returned"
    /\ ix_call.top_k = 2 /\ Cardinality(Matching) = 3
    /\ Len(ix_result) = 2
    /\ CallScore(ix_result[1]) = CallScore(ix_result[2])
    /\ ~InSeq(ix_tools[1], ix_result)

\* the neighbours the vector index answered, as tools
CallNeighbours == [i \in 1..Len(ix_call.ranking) |-> ix_tools[ix_call.ranking[i]]]

\* the keyword matches of the call, best first (ties in catalog order)
RECURSIVE BestFirst(_)
BestFirst(positions) ==
    IF positions = {} THEN <<>>
    ELSE LET b == CHOOSE p \in positions :
                     \A o \in positions \ {p} : RanksBefore(ix_tools[p], ix_tools[o])
         IN  <<ix_tools[b]>> \o BestFirst(positions \ {b})

\* C19: when fewer than top_k tools have a keyword score above 0, search
\* returns the keyword matches in descending score order (ties in catalog
\* order), then the neighbours not already included, nearest first, cut at
\* top_k.
C19_MergePathMostRelevantFirst ==
    (ix_outcome = "returned" /\ ix_tools # <<>> /\ Cardinality(Matching) < ix_call.top_k)
        => ix_result = Take(MergeSemantic(BestFirst(Matching), CallNeighbours, 1,
                                          ix_call.top_k), ix_call.top_k)

\* the indexer was constructed over a server's empty tool list
EmptyIndexer == cons.pc # "idle" /\ cons.cls = "tool" /\ cons.items = <<>>

\* C21: a FAISSToolIndexer constructed over zero tools is complete at once,
\* has made no embedding call, holds no index even when cache files of the
\* server exist, and has left those files as they were; every search on it
\* returns the empty list, with no embedding call and without raising.
C21_EmptyIndexerIsSafe ==
    EmptyIndexer
        => /\ cons.pc = "ready" /\ ~cons.hit
           /\ cons.embedCalls = 0
           /\ cons.index = <<>>
           /\ disk[cons.coll] = cons.before
           /\ srch.outcome # "idle"
                 => /\ srch.outcome = "returned"
                    /\ srch.result = <<>>
                    /\ srch.embedCalls = 0

\* an empty indexer constructed next to the cache files of an earlier start,
\* and searched
C21_Witness ==
    /\ EmptyIndexer
    /\ cons.before.index.exists /\ cons.before.meta.exists
    /\ srch.n >= 1 /\ srch.top_k >= 1
    /\ srch.result = <<>>

(***************************************************************************)
(* Claims about filtering, planning targets and connections                *)
(***************************************************************************)
\* C22: for every planned target the plan's tool_queries omits, the target's
\* tool index is searched with the original query text: in process_query for
\* every indexed server of the plan, in execute_query for every planned agent
\* whose MCP tool declares functions.
C22_OmittedSubQueryIsTheQuery ==
    /\ \A r \in Slots :
          A1Invoked(r)
              => \A sv \in Range(req[r].plan.servers) \cap DOMAIN req[r].selected :
                    sv \notin DOMAIN req[r].plan.tool_queries
                        => /\ sv \in DOMAIN req[r].subqueries
                           /\ req[r].subqueries[sv] = req[r].query
    /\ \A r \in Slots :
          A2Invoked(r)
              => \A a \in Range(a2_req[r].plan.agents) \cap a2_req[r].mcp :
                    (a \notin DOMAIN a2_req[r].plan.tool_queries /\ a2_req[r].agents[a] # <<>>)
                        => /\ a \in DOMAIN a2_req[r].subqueries
                           /\ a2_req[r].subqueries[a] = a2_req[r].query

\* C23: every planning call describes to the planner exactly the servers
\* registered when the call is made: one added before the query is among
\* them, one removed before the query is not.
C23_PlannerSeesKnownServers ==
    [][ \A r \in Slots :
           (req[r].pc \in {"idle", "done"} /\ req'[r].pc = "planning")
               => planning_servers = KnownServers(req'[r].kind) ]_vars

\* C24: whatever calls of add_server, remove_server and shutdown overlapped,
\* no two open connections bear the same provider name, and every open
\* connection is the one registered under its name.
C24_ConnectionsAccounted ==
    /\ \A i, j \in 1..Len(conns) :
          (conns[i].open /\ conns[j].open /\ conns[i].name = conns[j].name) => i = j
    /\ \A i \in 1..Len(conns) :
          conns[i].open
              => /\ conns[i].name \in DOMAIN registered
                 /\ registered[conns[i].name] = i

(***************************************************************************)
(* Claims about the session store and the outcomes                         *)
(***************************************************************************)
\* C25: the store entry of a session changes only in a step of that session:
\* its clear, the return of a query carrying it, or a restore under it.
\* Steps of other sessions, of queries without a session_id and of the
\* registry leave it as it was.
C25_EntryChangesOnlyByOwnSession ==
    [][ /\ \A sid \in SessionIds :
              Entry(threads', sid) # Entry(threads, sid) => last'[sid] # last[sid]
        /\ \A sid \in SessionIds :
              Entry(a2_threads', sid) # Entry(a2_threads, sid)
                  => a2_last'[sid] # a2_last[sid] ]_vars

\* both sessions hold a thread, that of s1 is the one its own last query
\* produced, and a registry call was made
C25_Witness ==
    /\ Entry(threads, "s1") # NoThread /\ Entry(threads, "s2") # NoThread
    /\ Entry(threads, "s1") # Entry(threads, "s2")
    /\ last["s1"] = Produced(Entry(threads, "s1"))
    /\ nRegOps >= 1

\* what happened to a finished request of approach1
A1Outcome(rq) ==
    CASE rq.pc # "done"                          -> "pending"
      [] rq.execExc # NoExc                      -> "execution failure"
      [] rq.reply.kind \in {"error", "raised"}
            /\ ~plan(rq.resp).ok                 -> "planning failure"
      [] rq.reply.kind \in {"error", "raised"}   -> "other failure"
      [] rq.tools = <<>>                         -> "no tools"
      [] OTHER                                   -> "success"

\* what happened to a finished request of approach2
A2Outcome(rq) ==
    CASE rq.pc # "done"                          -> "pending"
      [] rq.execExc # NoExc                      -> "execution failure"
      [] rq.nPlan >= 1 /\ ~plan2(rq.resp).ok     -> "planning failure"
      [] rq.reply.kind = "ok" /\ rq.reply.detail = <<"answer">> -> "success"
      [] OTHER                                   -> "other"

NamedOutcomes == {"planning failure", "execution failure", "no tools", "success"}

\* two finished requests with different outcomes got different answers
C26_OutcomesDiffer ==
    /\ \A r1, r2 \in Slots :
          (A1Outcome(req[r1]) \in NamedOutcomes /\ A1Outcome(req[r2]) \in NamedOutcomes
             /\ A1Outcome(req[r1]) # A1Outcome(req[r2]))
              => req[r1].reply # req[r2].reply
    /\ \A r1, r2 \in Slots :
          (A2Outcome(a2_req[r1]) \in NamedOutcomes /\ A2Outcome(a2_req[r2]) \in NamedOutcomes
             /\ A2Outcome(a2_req[r1]) # A2Outcome(a2_req[r2]))
              => a2_req[r1].reply # a2_req[r2].reply

\* a failure reaches the caller as an error
C26_FailuresAreErrors ==
    /\ \A r \in Slots :
          A1Outcome(req[r]) \in {"planning failure", "execution failure"}
              => req[r].reply.kind \in {"error", "raised"}
    /\ \A r \in Slots :
          A2Outcome(a2_req[r]) \in {"planning failure", "execution failure"}
              => a2_req[r].reply.kind = "error"

\* C26: a planning failure, an execution failure, the "no tools" outcome and
\* a success are told apart by what the caller receives: requests that ended
\* differently got different answers, and each failure is answered by an error.
C26_OutcomeIdentifiesWhatHappened == C26_OutcomesDiffer /\ C26_FailuresAreErrors

(***************************************************************************)
(* Claims about AgentIndexer.search                                        *)
(***************************************************************************)
\* an AgentIndexer.search call was made and its embedding call answered
AgentSearched ==
    /\ cons.cls = "agent" /\ cons.pc = "ready" /\ cons.items # <<>>
    /\ srch.n >= 1 /\ srch.outcome # "embedding raised"

CatalogNames == {cons.items[i].name : i \in 1..Len(cons.items)}

\* distance of the catalog's agent `name` to the query of the call
AgentDistance(name) ==
    LET item == CHOOSE it \in Range(cons.items) : it.name = name
    IN  L2(get_embedding(EmbeddingText(item)), get_embedding(srch.query))

\* min(top_k, n) pairwise distinct names of the catalog, nearest first
NearestAgents(result) ==
    /\ Len(result) = Min(srch.top_k, Len(cons.items))
    /\ Range(result) \subseteq CatalogNames
    /\ \A i, j \in 1..Len(result) : i # j => result[i] # result[j]
    /\ \A i, j \in 1..Len(result) :
          i < j => AgentDistance(result[i]) <= AgentDistance(result[j])
    /\ \A i \in 1..Len(result) : \A name \in CatalogNames \ Range(result) :
          AgentDistance(result[i]) <= AgentDistance(name)

IndexOfCatalog == ~cons.hit \/ LoadedOwnCache

Answered(r) == req[r].nPlan >= 1 /\ req[r].pc \in {"executing", "done"}

\* the JSON text the response holds, bare or fenced
JsonTextOf(resp) == CHOOSE j \in JsonTexts : resp \in Wrappings(j)

\* what plan() makes of the response: the decoded object, or the exception
Decoded(resp) == [ok |-> plan(resp).ok, plan |-> plan(resp).plan, exc |-> plan(resp).exc]

\* C28 as stated: for every response that is a JSON text, bare or between one
\* pair of code fences (with or without the json tag), decode_json returns the
\* JSON text, and plan() decodes what it decodes from the bare text.
C28_FenceStripping ==
    \A r \in Slots :
        Answered(r)
            => /\ decode_json(req[r].resp) = JsonTextOf(req[r].resp)
               /\ Decoded(req[r].resp) = Decoded(JsonTextOf(req[r].resp))

\* C28 amended: the same, for every JSON text that does not itself contain
\* three backquotes.
C28_FenceStrippingOfFenceFreeJson ==
    \A r \in Slots :
        (Answered(r) /\ JsonTextOf(req[r].resp) # FencedStringText)
            => /\ decode_json(req[r].resp) = JsonTextOf(req[r].resp)
               /\ Decoded(req[r].resp) = Decoded(JsonTextOf(req[r].resp))

\* a plan wrapped in an untagged fence with whitespace was decoded and is
\* being executed
C28_Witness ==
    /\ req[1].pc = "executing"
    /\ req[1].resp = <<WS, FENCE, WS, Doc(MkPlan(<<"A">>, EmptyMap)), WS, FENCE, WS>>
    /\ req[1].plan = MkPlan(<<"A">>, EmptyMap)

(***************************************************************************)
(* Claims about the tools handed to the execution capability               *)
(***************************************************************************)
\* the functions of the catalogs server_tools holds for the servers of pl
PlannedLiveFunctions(pl, catalogs) ==
    UNION {Range(Functions(catalogs[server])) :
              server \in Range(pl.servers) \cap DOMAIN catalogs}

\* the step in which the request in slot r calls execute
HandsToExecution(r) == req[r].pc = "planning" /\ req'[r].pc = "executing"

\* C29: whenever process_query or run calls execute, every tool of the list
\* it passes is a tool server_tools holds at that moment for a server named
\* in the request's plan, after filtering and after the fallback alike.
C29_ExecutedToolsBelongToPlannedServers ==
    [][ \A r \in Slots :
           HandsToExecution(r)
               => Range(req'[r].tools)
                     \subseteq PlannedLiveFunctions(req'[r].plan, server_tools') ]_vars

\* a request is executing the tools the fallback collected, after a registry
\* call changed the catalogs
C29_Witness ==
    /\ req[1].pc = "executing" /\ req[1].fallback /\ req[1].tools # <<>>
    /\ nRegOps >= 1

\* the names of the tools of `server` among the functions handed to execute
ExecutedNames(rq, server) ==
    {t.name : t \in {u \in Range(ProviderTools(server)) : u.function \in Range(rq.tools)}}

\* selected_tools of the result says what was executed
BookkeepingMatches(rq) ==
    \A server \in ServerNames \cup Range(rq.plan.servers) :
        IF server \in DOMAIN rq.selected
        THEN Range(rq.selected[server]) = ExecutedNames(rq, server)
        ELSE ExecutedNames(rq, server) = {}

\* process_query returned a result
ServiceSucceeded(r) ==
    req[r].kind = "service" /\ req[r].pc = "done" /\ req[r].reply.kind = "ok"

\* C30: in every successful result of process_query, the names selected_tools
\* records under a target are exactly the names of the target's tools that
\* were handed to execute, and a target without an entry contributed no tool.
C30_SelectedToolsMatchExecuted ==
    \A r \in Slots : ServiceSucceeded(r) => BookkeepingMatches(req[r])

(***************************************************************************)
(* Claims about the registry of approach1                                  *)
(***************************************************************************)
\* no add_server or remove_server call is in progress
RegistryQuiet == regop.op = "none"

\* the connected names are the names with a catalog
ConnectionsHaveCatalogs == mcp_connections = DOMAIN server_tools

\* a name has an indexer exactly when its catalog is not empty
IndexedIffTools ==
    /\ DOMAIN tool_indexers \subseteq DOMAIN server_tools
    /\ \A name \in DOMAIN server_tools :
          name \in DOMAIN tool_indexers <=> server_tools[name] # <<>>

\* C31: after any sequence of initialize, add_server and remove_server calls,
\* failed ones included, the names of mcp_connections are the names of
\* server_tools, and a name has an entry in tool_indexers if and only if its
\* catalog in server_tools is not empty.
C31_RegistryInvariant ==
    (mode = "approach1" /\ RegistryQuiet) => (ConnectionsHaveCatalogs /\ IndexedIffTools)

\* the registry maps and the connections are as before the step
RegistryUntouched ==
    UNCHANGED <<mcp_connections, server_tools, tool_indexers, MCP_SERVERS, conns, registered>>

\* C32: add_server of a name already registered, or of a config lacking the
\* url (http) or the command (stdio), ends at once with ValueError: no
\* connection is opened and mcp_connections, server_tools, tool_indexers and
\* MCP_SERVERS are unchanged.
C32_AddServerRejectsBeforeConnecting ==
    [][ \A name \in ServerNames, configOk \in BOOLEAN :
           (AddServerBegin(name, configOk) /\ initialized
               /\ (name \in mcp_connections \/ ~configOk))
               => /\ regop'.op = "none" /\ regop'.result = "ValueError"
                  /\ RegistryUntouched ]_vars

\* an add_server call was rejected while the startup registry is in place
C32_Witness ==
    /\ mode = "approach1"
    /\ nRegOps >= 1 /\ regop.op = "none" /\ regop.result = "ValueError"
    /\ mcp_connections = InitialServers /\ DOMAIN server_tools = InitialServers

\* the name is in none of the four registry maps
Unregistered(name, connections, catalogs, indexers, config) ==
    /\ name \notin connections /\ name \notin DOMAIN catalogs
    /\ name \notin DOMAIN indexers /\ name \notin config

\* the step in which the request in slot r, its plan decoded, selects its
\* tools without an exception
SelectsTools(r) ==
    /\ req[r].pc = "planning" /\ req'[r].pc # "planning"
    /\ req'[r].reply.kind \notin {"error", "raised"}

\* C33: remove_server of an unregistered name ends with ValueError and leaves
\* the registry as it was; remove_server of a registered name takes the name
\* out of mcp_connections, server_tools, tool_indexers and MCP_SERVERS whether
\* or not closing the connection raised; and a query planned afterwards skips
\* a planned server that is not registered and hands none of its tools on.
C33_RemoveServer ==
    [][ /\ \A name \in ServerNames :
              (RemoveServerBegin(name) /\ initialized /\ name \notin mcp_connections)
                  => /\ regop'.op = "none" /\ regop'.result = "ValueError"
                     /\ RegistryUntouched
        /\ RemoveServerClosed
              => /\ regop'.result = "ok"
                 /\ Unregistered(regop.name, mcp_connections', server_tools',
                                 tool_indexers', MCP_SERVERS')
        /\ \A r \in Slots :
              SelectsTools(r)
                  => \A server \in Range(req'[r].plan.servers) \ mcp_connections :
                        /\ server \in req'[r].skipped
                        /\ \A t \in Range(ProviderTools(server)) :
                              t.function \notin Range(req'[r].tools) ]_vars

\* server A was removed while closing its connection raised, and a query
\* planned afterwards named A and skipped it
C33_Witness ==
    /\ regop.op = "none" /\ regop.result = "ok" /\ "A" \notin mcp_connections
    /\ \E i \in 1..Len(conns) : conns[i].name = "A" /\ conns[i].open
    /\ req[1].pc \in {"executing", "done"}
    /\ "A" \in Range(req[1].plan.servers) /\ "A" \in req[1].skipped
    /\ req[1].tools = <<>>

\* the session store and the call counters of the requests are as before
StoreUntouched == threads' = threads /\ nextThread' = nextThread /\ last' = last

\* C34: while _initialized is false, process_query, add_server, remove_server
\* and list_servers end at once with RuntimeError: no planning call, no
\* execution call, no change of the registry or of the session store; and
\* initialize on an initialized service creates no agent and opens no
\* connection.
C34_NotInitializedRaises ==
    [][ /\ \A r \in Slots, sid \in {None} \cup SessionIds :
              (A1Start(r, "service", sid, NoThread) /\ ~initialized)
                  => /\ req'[r].pc = "done"
                     /\ req'[r].reply = RouteError(NotInitialized)
                     /\ req'[r].nPlan = 0 /\ req'[r].nExec = 0
                     /\ RegistryUntouched /\ StoreUntouched
        /\ \A name \in ServerNames, configOk \in BOOLEAN :
              ((AddServerBegin(name, configOk) \/ RemoveServerBegin(name) \/ ListServers)
                 /\ ~initialized)
                  => /\ regop'.op = "none" /\ regop'.result = "RuntimeError"
                     /\ RegistryUntouched /\ StoreUntouched /\ req' = req
        /\ (ServiceInitialize /\ initialized)
              => /\ ops'[1].op = "none"
                 /\ RegistryUntouched /\ StoreUntouched
                 /\ planning_servers' = planning_servers /\ initialized' ]_vars

\* the service was shut down after a session query stored a thread, and a
\* later process_query was answered with the RuntimeError
C34_Witness ==
    /\ ~initialized /\ ops[2].result = "ok" /\ mcp_connections = {}
    /\ "s1" \in DOMAIN threads
    /\ req[1].pc = "done" /\ req[1].reply = RouteError(NotInitialized)
    /\ req[1].nPlan = 0

\* a step in which request r ends with an error
A1Fails(r) ==
    /\ req[r].pc \in {"planning", "executing"} /\ req'[r].pc = "done"
    /\ req'[r].reply.kind \in {"error", "raised"}
A2Fails(r) ==
    /\ a2_req[r].pc \in {"planning", "connecting", "executing"} /\ a2_req'[r].pc = "done"
    /\ a2_req'[r].reply.kind = "error"

\* C35 as stated: a request that fails, in planning or in execution, makes
\* no write to the SessionThreadStore: no entry appears for its session_id and
\* an entry that was there still maps to the same thread.
C35_FailedRequestLeavesStore ==
    [][ /\ \A r \in Slots : A1Fails(r) => threads' = threads /\ ~req'[r].wrote
        /\ \A r \in Slots : A2Fails(r) => a2_threads' = a2_threads /\ ~a2_req'[r].wrote ]_vars

\* the error of execute_query when leaving the AsyncExitStack raises
CloseError == A2RouteError(Exc("ConnectionError", "close"))

\* C35 amended: a request that fails before its execution call has returned
\* makes no write to the SessionThreadStore; in execute_query a request whose
\* MCP tools fail to close after execute() returned answers 500 and has
\* stored what a successful request stores.
C35_FailureBeforeExecuteReturnsLeavesStore ==
    [][ /\ \A r \in Slots : A1Fails(r) => threads' = threads /\ ~req'[r].wrote
        /\ \A r \in Slots :
              A2Fails(r) =>
                 IF a2_req'[r].reply = CloseError /\ a2_req[r].pc = "executing"
                 THEN a2_threads' = A2StoreThread(a2_threads, a2_req[r].sid,
                                       ThreadToStore(a2_req'[r].updated, a2_req[r].thread))
                 ELSE a2_threads' = a2_threads /\ ~a2_req'[r].wrote ]_vars

\* a request of session s1, which has a stored thread, failed in execution
C35_Witness ==
    \/ /\ mode = "approach1" /\ req[1].pc = "done" /\ req[1].sid = "s1"
       /\ req[1].reply.kind = "error" /\ req[1].execExc # NoExc
       /\ "s1" \in DOMAIN threads
    \/ /\ mode = "approach2" /\ a2_req[1].pc = "done" /\ a2_req[1].sid = "s1"
       /\ a2_req[1].reply = CloseError /\ a2_req[1].wrote

\* request r of process_query returns, having carried a session_id
A1SessionReturns(r) ==
    A1Returns(r) /\ req[r].kind = "service" /\ Truthy(req[r].sid)

\* C36 as stated: a clear is durable against in-flight work: a query for s
\* that started before clear_session(s) and completes after it, with no other
\* event on s since the clear, does not put a thread for s back into the store.
C36_ClearDurableAgainstInFlight ==
    [][ \A r \in Slots :
           (A1SessionReturns(r) /\ req[r].pre.ev # "cleared"
              /\ last[req[r].sid].ev = "cleared")
               => req[r].sid \notin DOMAIN threads' ]_vars

\* C36 amended: clear_session(s) removes the entry of s; every query for s
\* that completes afterwards stores its updated thread under s, whether it
\* started before or after the clear; and an entry for s comes back into the
\* store only when a query for s completes.
C36_ClearHoldsUntilNextCompletion ==
    [][ /\ \A sid \in SessionIds : A1ClearSession(sid) => sid \notin DOMAIN threads'
        /\ \A r \in Slots :
              A1SessionReturns(r)
                  => /\ req[r].sid \in DOMAIN threads'
                     /\ threads'[req[r].sid] = req[r].runThread
        /\ \A sid \in SessionIds :
              (sid \notin DOMAIN threads /\ sid \in DOMAIN threads')
                  => \E r \in Slots : A1SessionReturns(r) /\ req[r].sid = sid ]_vars

\* the only query ever made, for s1, was overlapped (by a clear: no other
\* request exists) and stored its thread: s1 is in the store after the clear
C36_Witness ==
    /\ mode = "approach1" /\ nReq = 1
    /\ req[1].pc = "done" /\ req[1].sid = "s1" /\ req[1].disturbed /\ req[1].wrote
    /\ req[2].pc = "idle"
    /\ last["s1"].ev = "produced"
    /\ "s1" \in DOMAIN threads

\* C37: on a catalog of n pairwise distinct tools and for every top_k >= 1,
\* search returns exactly min(top_k, n) tools and repeats none, for every
\* query and every ranking of the min(2*top_k, n) neighbours.
C37_SearchReturnsExactlyMinTopKN ==
    (ix_outcome = "returned" /\ ix_call.top_k >= 1 /\ Distinct(ix_tools))
        => /\ Len(ix_result) = Min(ix_call.top_k, Len(ix_tools))
           /\ Distinct(ix_result)

\* one keyword match, fewer than top_k, and the nearest neighbour is that
\* same tool: the merge skipped it and filled both places from the
\* 3 neighbours of a catalog of 3
C37_Witness ==
    /\ ix_outcome = "returned" /\ ix_call.top_k = 2 /\ Len(ix_tools) = 3
    /\ Len(ix_call.ranking) = 3
    /\ Len(KeywordMatches(ix_tools, Split(Lower(ix_call.query)))) = 1
    /\ ix_tools[ix_call.ranking[1]] = ix_result[1]
    /\ Len(ix_result) = 2

\* request r of process_query leaves the filtering loop and the fallback step
A1Selects(r) ==
    /\ req[r].pc = "planning" /\ req'[r].pc \in {"executing", "done"}
    /\ req'[r].kind = "service" /\ req'[r].reply.kind \notin {"error", "raised"}

\* a planned target of request r has a non-empty catalog in server_tools
PlannedTargetOwnsTool(r) ==
    \E sv \in Range(req'[r].plan.servers) :
        sv \in DOMAIN server_tools /\ server_tools[sv] # <<>>

\* C38: in process_query, whenever a planned target has a non-empty catalog
\* in server_tools the fallback step is not taken: the filtered aggregate is
\* non-empty and it is what the execution capability receives.
C38_FallbackOnlyWithoutTools ==
    [][ \A r \in Slots :
           (A1Selects(r) /\ PlannedTargetOwnsTool(r))
               => /\ ~req'[r].fallback
                  /\ req'[r].pc = "executing"
                  /\ req'[r].tools # <<>> ]_vars

\* the agents of cache that require MCP and name a server missing from servers
Dangling(cache, servers) ==
    {a \in DOMAIN cache :
        /\ cache[a].requires_mcp /\ Truthy(cache[a].mcp_server)
        /\ cache[a].mcp_server \notin servers}

\* C39 as stated: after any sequence of add_mcp_server, delete_mcp_server,
\* add_agent and delete_agent calls, every agent of agents_cache that requires
\* MCP and names an mcp_server names a server present in mcp_servers.
C39_ReferentialIntegrity == Dangling(agents_cache, mcp_servers) = {}

RegistrationUnchanged == UNCHANGED <<agents_cache, mcp_servers, db_agents>>

\* C39 amended: the four calls never add a dangling reference to the one
\* startup left (every agent that names a missing server did so before the
\* call); delete_mcp_server of a server an agent names and add_agent naming
\* an unregistered server answer 400 and leave the maps as they were.
C39_CallsKeepReferentialIntegrity ==
    [][ /\ Dangling(agents_cache', mcp_servers') \subseteq Dangling(agents_cache, mcp_servers)
        /\ \A name \in McpServerNames :
              (DeleteMcpServer(name) /\ name \in mcp_servers /\ UsingAgents(name) # {})
                  => a2_call'.status = 400 /\ RegistrationUnchanged
        /\ \A name \in NewAgentNames, info \in NewAgentInfos, dbUp \in BOOLEAN :
              (AddAgent(name, info, dbUp) /\ info.requires_mcp /\ Truthy(info.mcp_server)
                 /\ info.mcp_server \notin mcp_servers)
                  => a2_call'.status = 400 /\ RegistrationUnchanged ]_vars

\* server S was added, agent v naming it was added, and deleting S was refused
C39_Witness ==
    /\ a2_call = Call2("delete_mcp_server", "S", 400)
    /\ "S" \in mcp_servers
    /\ "v" \in DOMAIN agents_cache /\ agents_cache["v"] = AgentInfo(TRUE, "S")
    /\ "v" \in DOMAIN db_agents

\* the agent pools merge_agents is tried on: every map from a set of names to
\* the infos
AgentPools ==
    UNION {[names -> {AgentInfo(TRUE, "A"), AgentInfo(FALSE, None)}] :
              names \in SUBSET {"x", "y", "w"}}

\* merge_agents keeps the code-based entry of every name of both pools and
\* adds the database agents of the other names only
MergeKeepsCode ==
    \A code_agents \in AgentPools, db \in AgentPools :
        LET merged == merge_agents(code_agents, db)
        IN  /\ DOMAIN merged = DOMAIN code_agents \cup DOMAIN db
            /\ \A n \in DOMAIN code_agents :
                  merged[n] = [code_agents[n] EXCEPT !.source = "code"]
            /\ \A n \in DOMAIN db \ DOMAIN code_agents :
                  merged[n] = [db[n] EXCEPT !.source = "database"]

\* C40: merge_agents gives the code-based agents priority, and after startup
\* every sequence of add_agent, list_agents and delete_agent calls leaves
\* every code-based agent in agents_cache with its code-based entry, a
\* candidate of the later queries.
C40_CodeAgentsStayAvailable ==
    /\ MergeKeepsCode
    /\ \A n \in DOMAIN CodeAgents :
          /\ n \in DOMAIN agents_cache
          /\ agents_cache[n] = [CodeAgents[n] EXCEPT !.source = "code"]

=============================================================================
